---- MODULE Spec2Model ----
(***************************************************************************)
(* Verification model of the Vietnam-housing preprocessing code:           *)
(*   - the online single-record preprocessor (TreePreprocessService) and   *)
(*     the column list of TreeModelService,                                *)
(*   - the batch paths that split, filter, fit and encode                  *)
(*     (split_and_encode, tree_optimized_pipeline,                         *)
(*      process_with_train_test_split, process_one_hot_and_scale,          *)
(*      MLPipeline.run_pipeline).                                          *)
(*                                                                         *)
(* Vietnamese text is written in VNI (7-bit) spelling, a digit after the   *)
(* letter for each diacritic: "Ho62 Chi1 Minh" is the string the source    *)
(* writes with diacritics, "ho chi minh" the unaccented string of the      *)
(* source.  Python orders strings by code point;                           *)
(* CodePointOrder lists the category strings of the model in that order.   *)
(*                                                                         *)
(* Floating-point results of one division are modelled as reduced          *)
(* fractions <<n, d>> (IEEE division is correctly rounded, so two          *)
(* quotients are equal floats when the fractions are equal).               *)
(***************************************************************************)
EXTENDS Integers, Sequences, FiniteSets, TLC

VARIABLES
    \* ---- online service (tree_preprocess_service.py) ----
    label_encoders,   \* self.label_encoders: column -> classes_ (sorted sequence)
    location_stats,   \* self.location_stats: None or the loaded table
    train_frame,      \* the training frame the loaded artifacts were fitted from
    files,            \* what __init__ found at each artifact path
    hash_seed,        \* the process's string-hash seed (PYTHONHASHSEED)
    data,             \* argument of the last preprocess call
    result,           \* DataFrame returned by the last preprocess call
    called,           \* has preprocess been called?
    calls,            \* the preprocess calls in flight on the shared instance
    prediction,       \* TreeModelService: its models and the last predict call
    \* ---- library functions and the DataPreprocessor object ----
    unit,             \* a library function's call: its argument and what it returned
    prep,             \* a DataPreprocessor instance and the caller's table
    \* ---- batch paths ----
    path,             \* which batch function is running
    pc,               \* its position
    config,           \* its configuration dict
    test_size,        \* its test_size argument, a fraction
    copy_on_write,    \* does the installed pandas run with copy-on-write?
    df_basic,         \* the frame basic_preprocessing returned (pipeline)
    df_work,          \* the frame the function works on before the split
    rare,             \* categories enhanced_preprocessing classified as rare
    X_train, y_train, X_test, y_test,
    fitted,           \* label_encoders / location_stats / scaler of the run
    fit_log,          \* every fit made: what, on which rows, after the split?
    trace,            \* stages executed so far, in order
    \* ---- a second run on the same training rows and other test rows ----
    df_basic2, rare2, X_test2, fitted2

vars == <<label_encoders, location_stats, train_frame, files, hash_seed, data, result,
          called, calls, prediction, unit, prep, path, pc, config, test_size, copy_on_write, df_basic, df_work, rare,
          X_train, y_train, X_test, y_test, fitted, fit_log, trace,
          df_basic2, rare2, X_test2, fitted2>>

serveVars == <<label_encoders, location_stats, train_frame, files, hash_seed, data,
               result, called, calls, prediction, unit, prep>>
batchVars == <<path, pc, config, test_size, copy_on_write, df_basic, df_work, rare,
               X_train, y_train, X_test, y_test, fitted, fit_log, trace,
               df_basic2, rare2, X_test2, fitted2>>

\* Python's None where a table or a fitted object is expected
None == [none |-> TRUE]
IsNone(x) == "none" \in DOMAIN x

(***************************************************************************)
(* Small helpers                                                           *)
(***************************************************************************)
Max(a, b) == IF a >= b THEN a ELSE b
Min(a, b) == IF a <= b THEN a ELSE b

RECURSIVE GCD(_, _)
GCD(a, b) == IF b = 0 THEN a ELSE GCD(b, a % b)

\* the float n / d  (d > 0, n >= 0) as a reduced fraction
Div(n, d) == LET g == GCD(n, d) IN <<n \div g, d \div g>>

Range(s) == {s[i] : i \in DOMAIN s}

IndexOf(s, x) == CHOOSE i \in DOMAIN s : s[i] = x

RECURSIVE SeqSum(_)
SeqSum(s) == IF s = <<>> THEN 0 ELSE Head(s) + SeqSum(Tail(s))

\* the subsequence of s at the positions satisfying mask (boolean indexing)
RECURSIVE Filter(_, _)
Filter(s, mask) ==
    IF s = <<>> THEN <<>>
    ELSE (IF Head(mask) THEN <<Head(s)>> ELSE <<>>) \o Filter(Tail(s), Tail(mask))

(***************************************************************************)
(* Strings                                                                 *)
(***************************************************************************)
\* Category strings of the model in Python's (code point) order:
\* digits < upper case < lower case < accented letters < D-stroke.
CodePointOrder ==
    << "", " TPHCM ", "0", "1", "2", "Bi2nh Du7o7ng", "Ba81c", "Co7 ba3n",
       "Have certificate", "High", "Ha2 No65i", "Ho62 Chi1 Minh", "Kho6ng ro4",
       "Large", "Low", "Lo71n", "Nam", "Nho3",
       "Other", "P. Be61n Nghe1", "Qua65n 1", "Qua65n 7", "Qua65n 99",
       "Ra61t lo71n", "Ra61t nho3", "Small", "Sa2i Go2n", "So63 ho62ng", "So63 d9o3",
       "Trung bi2nh", "Ta6y", "Unknown", "area_mean", "cao ca61p",
       "new_district_area_mean", "so63 ho62ng", "D9a2 Na84ng", "D9o6ng",
       "D9o6ng - Nam", "D9a62y d9u3", "d9o6ng nam" >>

Rank(s) == IndexOf(CodePointOrder, s)

\* sorted(set(values)): np.unique as LabelEncoder.fit uses it
RECURSIVE SortedSeq(_)
SortedSeq(S) ==
    IF S = {} THEN <<>>
    ELSE LET m == CHOOSE x \in S : \A y \in S : Rank(x) <= Rank(y)
         IN  <<m>> \o SortedSeq(S \ {m})

\* str.upper() of the lower-case city spellings
UpperOf ==
       "ho62 chi1 minh" :> "HO62 CHI1 MINH" @@ "ho chi minh" :> "HO CHI MINH"
    @@ "hcm" :> "HCM" @@ "tphcm" :> "TPHCM" @@ "tp hcm" :> "TP HCM"
    @@ "saigon" :> "SAIGON" @@ "sa2i go2n" :> "SA2I GO2N"
    @@ "ha2 no65i" :> "HA2 NO65I" @@ "ha noi" :> "HA NOI" @@ "hanoi" :> "HANOI"
    @@ "bi2nh du7o7ng" :> "BI2NH DU7O7NG" @@ "binh duong" :> "BINH DUONG"
    @@ "d9a2 na84ng" :> "D9A2 NA84NG" @@ "da nang" :> "DA NANG"
    @@ "danang" :> "DANANG" @@ "hue61" :> "HUE61" @@ "ca62n tho7" :> "CA62N THO7"
    @@ "" :> ""

\* spellings of a lower-case word that differ from it in case and in
\* surrounding blanks only
Spellings(word) ==
    { lead \o w \o trail : lead \in {"", " "}, trail \in {"", " ", "  "},
                           w \in {word, UpperOf[word]} }

\* str.lower().strip() of those spellings: the word they were spelled from
LowerStripOf ==
    [ s \in UNION { Spellings(word) : word \in DOMAIN UpperOf } |->
        CHOOSE word \in DOMAIN UpperOf : s \in Spellings(word) ]

\* str.lower().strip() on the strings of the model
LowerStrip(s) ==
    IF s \in DOMAIN LowerStripOf THEN LowerStripOf[s] ELSE
    CASE s = " TPHCM "         -> "tphcm"
      [] s = "Ho62 Chi1 Minh"  -> "ho62 chi1 minh"
      [] s = "Ha2 No65i"       -> "ha2 no65i"
      [] s = "Bi2nh Du7o7ng"   -> "bi2nh du7o7ng"
      [] s = "D9a2 Na84ng"     -> "d9a2 na84ng"
      [] s = "Sa2i Go2n"       -> "sa2i go2n"
      [] s = "Nam"             -> "nam"
      [] s = "Ba81c"           -> "ba81c"
      [] s = "Ta6y"            -> "ta6y"
      [] s = "D9o6ng"          -> "d9o6ng"
      [] s = "D9o6ng - Nam"    -> "d9o6ng - nam"
      [] s = "Kho6ng ro4"      -> "kho6ng ro4"
      [] s = "So63 d9o3"       -> "so63 d9o3"
      [] s = "So63 ho62ng"     -> "so63 ho62ng"
      [] s = "D9a62y d9u3"     -> "d9a62y d9u3"
      [] s = "Co7 ba3n"        -> "co7 ba3n"
      [] s = "Qua65n 1"        -> "qua65n 1"
      [] s = "Qua65n 7"        -> "qua65n 7"
      [] s = "Qua65n 99"       -> "qua65n 99"
      [] OTHER                 -> s

\* dict.get(key, default)
Get(d, k, default) == IF k \in DOMAIN d THEN d[k] ELSE default

(***************************************************************************)
(* Module constants of tree_preprocess_service.py / tree_model_service.py  *)
(***************************************************************************)
\* the order the list had before positions 13-17 were fixed: the two flags
\* ahead of the three location columns
EXPECTED_FEATURES_OldOrder ==
    << "Area", "Frontage", "Access Road", "House direction", "Balcony direction",
       "Floors", "Bedrooms", "Bathrooms", "Legal status", "Furniture state",
       "new_has_balcony_direction", "new_has_house_direction",
       "new_has_access_road", "has_frontage",
       "new_city", "new_district", "new_street_ward",
       "new_bathroom_bedroom_ratio", "new_total_rooms", "new_is_large_house",
       "new_avg_room_size", "new_is_luxury", "new_is_multi_story", "Area_binned",
       "area_x_bathrooms", "area_x_bedrooms", "area_x_floors",
       "bedrooms_x_bathrooms", "bedrooms_x_floors", "luxury_score",
       "area_in_ho62_chi1_minh", "area_in_ha2_no65i", "area_in_bi2nh_du7o7ng",
       "area_in_d9a2_na84ng", "room_density", "access_quality",
       "new_district_area_mean", "new_district_area_median",
       "new_district_area_std", "new_district_sample_count",
       "new_district_tier" >>

EXPECTED_FEATURES ==
    << "Area", "Frontage", "Access Road", "House direction", "Balcony direction",
       "Floors", "Bedrooms", "Bathrooms", "Legal status", "Furniture state",
       "new_has_balcony_direction", "new_has_house_direction",
       "new_city", "new_district", "new_street_ward",
       "new_has_access_road", "has_frontage",
       "new_bathroom_bedroom_ratio", "new_total_rooms", "new_is_large_house",
       "new_avg_room_size", "new_is_luxury", "new_is_multi_story", "Area_binned",
       "area_x_bathrooms", "area_x_bedrooms", "area_x_floors",
       "bedrooms_x_bathrooms", "bedrooms_x_floors", "luxury_score",
       "area_in_ho62_chi1_minh", "area_in_ha2_no65i", "area_in_bi2nh_du7o7ng",
       "area_in_d9a2_na84ng", "room_density", "access_quality",
       "new_district_area_mean", "new_district_area_median",
       "new_district_area_std", "new_district_sample_count",
       "new_district_tier" >>

\* the list of tree_model_service.py, written there five names to a line
MODEL_EXPECTED_FEATURES ==
    << "Area", "Frontage", "Access Road", "House direction", "Balcony direction",
       "Floors", "Bedrooms", "Bathrooms", "Legal status", "Furniture state",
       "new_has_balcony_direction", "new_has_house_direction",
       "new_city", "new_district", "new_street_ward",
       "new_has_access_road", "has_frontage",
       "new_bathroom_bedroom_ratio", "new_total_rooms", "new_is_large_house",
       "new_avg_room_size", "new_is_luxury", "new_is_multi_story", "Area_binned",
       "area_x_bathrooms", "area_x_bedrooms", "area_x_floors", "bedrooms_x_bathrooms",
       "bedrooms_x_floors", "luxury_score", "area_in_ho62_chi1_minh", "area_in_ha2_no65i",
       "area_in_bi2nh_du7o7ng", "area_in_d9a2_na84ng", "room_density", "access_quality",
       "new_district_area_mean", "new_district_area_median", "new_district_area_std",
       "new_district_sample_count", "new_district_tier" >>

CITY_MAPPING ==
    [ k \in { "ho62 chi1 minh", "ho chi minh", "hcm", "tphcm", "tp hcm", "saigon",
              "sa2i go2n", "ha2 no65i", "ha noi", "hanoi", "bi2nh du7o7ng",
              "binh duong", "d9a2 na84ng", "da nang", "danang" } |->
        CASE k \in {"ho62 chi1 minh", "ho chi minh", "hcm", "tphcm", "tp hcm",
                    "saigon", "sa2i go2n"}            -> "Ho62 Chi1 Minh"
          [] k \in {"ha2 no65i", "ha noi", "hanoi"}   -> "Ha2 No65i"
          [] k \in {"bi2nh du7o7ng", "binh duong"}    -> "Bi2nh Du7o7ng"
          [] OTHER                                    -> "D9a2 Na84ng" ]

DIRECTION_MAPPING ==
    [ k \in { "d9o6ng", "dong", "east", "e", "ta6y", "tay", "west", "w",
              "nam", "south", "s", "ba81c", "bac", "north", "n",
              "d9o6ng nam", "dong nam", "southeast", "se",
              "d9o6ng ba81c", "dong bac", "northeast", "ne",
              "ta6y nam", "tay nam", "southwest", "sw",
              "ta6y ba81c", "tay bac", "northwest", "nw" } |->
        CASE k \in {"d9o6ng", "dong", "east", "e"}                     -> 0
          [] k \in {"ta6y", "tay", "west", "w"}                        -> 1
          [] k \in {"nam", "south", "s"}                               -> 2
          [] k \in {"ba81c", "bac", "north", "n"}                      -> 3
          [] k \in {"d9o6ng nam", "dong nam", "southeast", "se"}       -> 4
          [] k \in {"d9o6ng ba81c", "dong bac", "northeast", "ne"}     -> 5
          [] k \in {"ta6y nam", "tay nam", "southwest", "sw"}          -> 6
          [] OTHER                                                     -> 7 ]

LEGAL_STATUS_MAPPING ==
    [ k \in { "so63 d9o3", "so do", "so63 ho62ng", "so hong", "ho75p d9o62ng",
              "hop dong", "d9ang cho72 so63", "dang cho so", "kho6ng ro4",
              "khong ro" } |->
        CASE k \in {"so63 d9o3", "so do"}                -> 0
          [] k \in {"so63 ho62ng", "so hong"}            -> 1
          [] k \in {"ho75p d9o62ng", "hop dong"}         -> 2
          [] k \in {"d9ang cho72 so63", "dang cho so"}   -> 3
          [] OTHER                                       -> 4 ]

FURNITURE_MAPPING ==
    [ k \in { "cao ca61p", "cao cap", "full", "d9a62y d9u3", "day du", "basic",
              "co7 ba3n", "co ban", "kho6ng no65i tha61t", "khong noi that",
              "none", "tro61ng", "kho6ng ro4", "khong ro" } |->
        CASE k \in {"cao ca61p", "cao cap", "full"}       -> 0
          [] k \in {"d9a62y d9u3", "day du", "basic"}     -> 1
          [] k \in {"co7 ba3n", "co ban"}                 -> 2
          [] k \in {"kho6ng ro4", "khong ro"}             -> 4
          [] OTHER                                        -> 3 ]

(***************************************************************************)
(* Tables.  A table is a sequence of rows, a row a function from column    *)
(* names to cells.  Statistics cells are sequences of fractions read as    *)
(* "the mean of the listed values": <<v>> is the value v, <<>> is NaN      *)
(* (the mean of nothing), a longer sequence is the mean pandas computes    *)
(* over a column that holds square roots (standard deviations).            *)
(***************************************************************************)
NaN == <<>>

Column(df, col) == [i \in DOMAIN df |-> df[i][col]]

\* df[col] = values  (column assignment, row by row)
SetColumn(df, col, values) ==
    [i \in DOMAIN df |->
        [c \in DOMAIN df[i] \cup {col} |-> IF c = col THEN values[i] ELSE df[i][c]]]

FracAdd(a, b) == Div(a[1] * b[2] + b[1] * a[2], a[2] * b[2])

RECURSIVE FracSum(_)
FracSum(s) == IF s = <<>> THEN <<0, 1>> ELSE FracAdd(Head(s), FracSum(Tail(s)))

\* the values of a sequence of numbers in ascending order
RECURSIVE SortNums(_)
SortNums(s) ==
    IF s = <<>> THEN <<>>
    ELSE LET i == CHOOSE i \in DOMAIN s : \A j \in DOMAIN s : s[i] <= s[j]
         IN  <<s[i]>> \o SortNums([k \in 1..(Len(s) - 1) |-> IF k < i THEN s[k] ELSE s[k + 1]])

\* Series.mean / median / std (ddof = 1) of a non-empty sequence of integers
SeriesMean(xs) == <<Div(SeqSum(xs), Len(xs))>>

SeriesMedian(xs) ==
    LET srt == SortNums(xs)
        n   == Len(xs)
    IN  IF n % 2 = 1 THEN <<Div(srt[(n + 1) \div 2], 1)>>
        ELSE <<Div(srt[n \div 2] + srt[n \div 2 + 1], 2)>>

\* the standard deviation, kept as the variance it is the square root of
SeriesStd(xs) ==
    LET n     == Len(xs)
        sum   == SeqSum(xs)
        sumsq == SeqSum([i \in DOMAIN xs |-> xs[i] * xs[i]])
    IN  IF n < 2 THEN NaN ELSE <<Div(n * sumsq - sum * sum, n * (n - 1))>>

(***************************************************************************)
(* sklearn LabelEncoder                                                    *)
(***************************************************************************)
\* LabelEncoder().fit(values): classes_ = the distinct values, sorted
LabelEncoderFit(values) == SortedSeq(Range(values))

\* le.transform([v])[0] for v in classes_
LabelEncoderTransform(classes, v) == IndexOf(classes, v) - 1

\* an encoder that gives an unknown value the first code
EncodeOrFirst(classes, v) ==
    IF v \in Range(classes) THEN LabelEncoderTransform(classes, v) ELSE 0

\* "if val in le.classes_: le.transform([val])[0] else: -1"
EncodeOrUnknown(classes, v) ==
    IF v \in Range(classes) THEN LabelEncoderTransform(classes, v) ELSE -1

(***************************************************************************)
(* enhanced_preprocessing.py: location statistics                          *)
(***************************************************************************)
LocationStatColumns ==
    << "new_district_area_mean", "new_district_area_median",
       "new_district_area_std", "new_district_sample_count" >>

\* a count outside (0, 10000] has no bin: pd.cut gives NaN and .astype(int)
\* cannot convert it
NoTier == -1

\* pd.cut(count, bins=[0, 50, 200, 500, 10000], labels=[0, 1, 2, 3])
TierOfCount(n) ==
    CASE n > 0   /\ n <= 50    -> 0
      [] n > 50  /\ n <= 200   -> 1
      [] n > 200 /\ n <= 500   -> 2
      [] n > 500 /\ n <= 10000 -> 3
      [] OTHER                 -> NoTier

\* df_train.groupby(location_col).agg({"Area": [mean, median, std], col: count}):
\* the table indexed by the districts of df_train, in sorted order
GroupStats(df_train) ==
    LET districts == Range(Column(df_train, "new_district"))
        areas(d)  == LET mask == [i \in DOMAIN df_train |-> df_train[i]["new_district"] = d]
                     IN  Filter(Column(df_train, "Area"), mask)
    IN  [ index |-> SortedSeq(districts),
          cells |-> [d \in districts |->
                       ( "new_district_area_mean"    :> SeriesMean(areas(d))
                      @@ "new_district_area_median"  :> SeriesMedian(areas(d))
                      @@ "new_district_area_std"     :> SeriesStd(areas(d))
                      @@ "new_district_sample_count" :> <<Div(Len(areas(d)), 1)>> )] ]

TierOfCell(cell) ==
    IF Len(cell) = 1 /\ cell[1][2] = 1 THEN TierOfCount(cell[1][1])
    ELSE IF cell = NaN THEN NoTier
    ELSE \* a fractional global mean: the bin of the fraction n/d
         LET m == FracSum(cell)
             n == m[1]
             d == m[2] * Len(cell)
         IN  CASE n > 0       /\ n <= 50 * d    -> 0
               [] n > 50 * d  /\ n <= 200 * d   -> 1
               [] n > 200 * d /\ n <= 500 * d   -> 2
               [] n > 500 * d /\ n <= 10000 * d -> 3
               [] OTHER                         -> NoTier

\* df.merge(location_stats, left_on=col, right_index=True, how="left")
MergeStats(df, stats) ==
    [i \in DOMAIN df |->
        [c \in DOMAIN df[i] \cup Range(LocationStatColumns) |->
            IF c \in Range(LocationStatColumns)
            THEN IF df[i]["new_district"] \in Range(stats.index)
                 THEN stats.cells[df[i]["new_district"]][c]
                 ELSE NaN
            ELSE df[i][c]]]

WithTier(df) ==
    SetColumn(df, "new_district_tier",
              [i \in DOMAIN df |-> TierOfCell(df[i]["new_district_sample_count"])])

\* create_location_features_train: (df_train_enhanced, location_stats)
create_location_features_train(df_train) ==
    LET stats == GroupStats(df_train)
    IN  [df |-> WithTier(MergeStats(df_train, stats)), location_stats |-> stats]

\* location_stats[col].mean(): the mean of the column's non-NaN cells
StatsColumnMean(stats, col) ==
    LET cells == [i \in DOMAIN stats.index |-> stats.cells[stats.index[i]][col]]
        kept  == Filter(cells, [i \in DOMAIN cells |-> cells[i] # NaN])
        vals  == [i \in DOMAIN kept |-> kept[i][1]]
    IN  IF col = "new_district_area_std" THEN vals
        ELSE IF vals = <<>> THEN NaN
        ELSE LET s == FracSum(vals) IN <<Div(s[1], s[2] * Len(vals))>>

\* create_location_features_test: merge with the train statistics, fill the
\* missing cells with the column's mean, then the tier.  The fill is
\* df[col].fillna(mean, inplace=True) on a column selected from the frame:
\* it reaches the frame in a pandas without copy-on-write and is lost in a
\* pandas with copy-on-write (cow).
create_location_features_test(df_test, stats, cow) ==
    IF IsNone(stats) THEN df_test
    ELSE LET merged == MergeStats(df_test, stats)
             filled == [i \in DOMAIN merged |->
                          [c \in DOMAIN merged[i] |->
                              IF c \in Range(LocationStatColumns) /\ merged[i][c] = NaN
                              THEN StatsColumnMean(stats, c)
                              ELSE merged[i][c]]]
         IN  WithTier(IF cow THEN merged ELSE filled)

(***************************************************************************)
(* TreePreprocessService (tree_preprocess_service.py)                      *)
(***************************************************************************)
\* a blank numeric input (None or '')
Blank == -1

\* _to_float(value, default=0.0); the numeric inputs of the model are whole
_to_float(value) == IF value = Blank THEN 0 ELSE value

\* Python truthiness of a string
Truthy(s) == s # ""

\* a lookup of the argument as it is, without lower() and strip()
_normalize_city_exact(city) ==
    IF ~Truthy(city) THEN "Ho62 Chi1 Minh"
    ELSE Get(CITY_MAPPING, city, city)

\* _normalize_city
_normalize_city(city) ==
    IF ~Truthy(city) THEN "Ho62 Chi1 Minh"
    ELSE Get(CITY_MAPPING, LowerStrip(city), city)

\* _encode_direction / _encode_legal_status / _encode_furniture on a string
_encode_direction(direction) == Get(DIRECTION_MAPPING, LowerStrip(direction), 1)
_encode_legal_status(status) == Get(LEGAL_STATUS_MAPPING, LowerStrip(status), 0)
_encode_furniture(furniture) == Get(FURNITURE_MAPPING, LowerStrip(furniture), 1)

\* number of string-hash seeds a process may start with
NumHashSeeds == 2

\* abs(hash(value)) % 1000 in a process whose string hashing has this seed
PyHash(seed, value) == (Rank(value) * 7919 + seed * 104729) % 1000

\* _encode_categorical(column, value) with these encoders loaded
_encode_categorical(encoders, seed, column, value) ==
    IF column \in DOMAIN encoders
    THEN EncodeOrUnknown(encoders[column], value)
    ELSE IF ~Truthy(value) THEN 0 ELSE PyHash(seed, value)

\* "district in self.location_stats": membership in a DataFrame tests its
\* column labels
StatsContains(stats, district) == district \in Range(LocationStatColumns)

\* self.location_stats[district]: the column of that label, a Series
\* indexed by the districts
StatsColumn(stats, label) ==
    [d \in Range(stats.index) |-> stats.cells[d][label]]

\* the Area_binned code of preprocess
AreaBinnedOnline(area) ==
    CASE area < 30  -> 0
      [] area < 60  -> 1
      [] area < 100 -> 2
      [] area < 150 -> 3
      [] OTHER      -> 4

\* the luxury_score of preprocess
LuxuryScoreOnline(area, bathrooms, furnitureCode) ==
      (IF bathrooms >= 3 THEN 1 ELSE 0)
    + (IF area > 100 THEN 1 ELSE 0)
    + (IF furnitureCode \in {0, 1} THEN 1 ELSE 0)

\* the access_quality of preprocess
AccessQualityOnline(accessRoad) ==
    IF accessRoad = 0 THEN 0 ELSE IF accessRoad < 5 THEN 1 ELSE 2

\* the else branch of the location statistics with every value 0
DefaultLocationStatsZero ==
       "new_district_area_mean"    :> <<Div(0, 1)>>
    @@ "new_district_area_median"  :> <<Div(0, 1)>>
    @@ "new_district_area_std"     :> <<Div(0, 1)>>
    @@ "new_district_sample_count" :> <<Div(0, 1)>>
    @@ "new_district_tier"         :> 0

\* the else branch of the location statistics: mean 70.0, median 65.0,
\* std 30.0 (kept as its square), sample count 100, tier 2
DefaultLocationStats ==
       "new_district_area_mean"    :> <<Div(70, 1)>>
    @@ "new_district_area_median"  :> <<Div(65, 1)>>
    @@ "new_district_area_std"     :> <<Div(900, 1)>>
    @@ "new_district_sample_count" :> <<Div(100, 1)>>
    @@ "new_district_tier"         :> 2

\* the `processed` dict preprocess builds for the mapping d
Processed(encoders, stats, seed, d) ==
    LET area        == _to_float(Get(d, "Area", 70))
        frontage    == _to_float(Get(d, "Frontage", 0))
        accessRoad  == _to_float(Get(d, "AccessRoad", Get(d, "Access Road", 0)))
        floors      == _to_float(Get(d, "Floors", 1))
        rawBedrooms == _to_float(Get(d, "Bedrooms", 2))
        bathrooms   == _to_float(Get(d, "Bathrooms", 2))
        direction   == Get(d, "Direction", Get(d, "House direction", ""))
        balcony_dir == Get(d, "BalconyDirection", Get(d, "Balcony direction", ""))
        legal       == Get(d, "LegalStatus", Get(d, "Legal status", ""))
        furniture   == Get(d, "Furniture", Get(d, "Furniture state", ""))
        city        == _normalize_city(Get(d, "City", Get(d, "new_city", "Ho62 Chi1 Minh")))
        district    == Get(d, "District", Get(d, "new_district", ""))
        ward        == Get(d, "Ward", Get(d, "new_street_ward", ""))
        bedrooms    == Max(rawBedrooms, 1)
        total_rooms == bedrooms + bathrooms
        furnCode    == _encode_furniture(furniture)
        found       == ~IsNone(stats) /\ StatsContains(stats, district)
        series      == StatsColumn(stats, district)
    IN    "Area"                       :> area
       @@ "Frontage"                   :> frontage
       @@ "Access Road"                :> accessRoad
       @@ "Floors"                     :> floors
       @@ "Bedrooms"                   :> rawBedrooms
       @@ "Bathrooms"                  :> bathrooms
       @@ "House direction"            :> _encode_direction(direction)
       @@ "Balcony direction"          :> _encode_direction(balcony_dir)
       @@ "Legal status"               :> _encode_legal_status(legal)
       @@ "Furniture state"            :> furnCode
       @@ "new_has_balcony_direction"  :> (IF Truthy(balcony_dir) THEN 1 ELSE 0)
       @@ "new_has_house_direction"    :> (IF Truthy(direction) THEN 1 ELSE 0)
       @@ "new_has_access_road"        :> (IF accessRoad > 0 THEN 1 ELSE 0)
       @@ "has_frontage"               :> (IF frontage > 0 THEN 1 ELSE 0)
       @@ "new_city"                   :> _encode_categorical(encoders, seed, "new_city", city)
       @@ "new_district"               :> _encode_categorical(encoders, seed, "new_district", district)
       @@ "new_street_ward"            :> _encode_categorical(encoders, seed, "new_street_ward", ward)
       @@ "new_bathroom_bedroom_ratio" :> Div(bathrooms, bedrooms)
       @@ "new_total_rooms"            :> total_rooms
       @@ "new_is_large_house"         :> (IF area > 140 THEN 1 ELSE 0)
       @@ "new_avg_room_size"          :> Div(area, Max(total_rooms, 1))
       @@ "new_is_luxury"              :> (IF bathrooms >= 4 THEN 1 ELSE 0)
       @@ "new_is_multi_story"         :> (IF floors > 2 THEN 1 ELSE 0)
       @@ "Area_binned"                :> AreaBinnedOnline(area)
       @@ "area_x_bathrooms"           :> area * bathrooms
       @@ "area_x_bedrooms"            :> area * bedrooms
       @@ "area_x_floors"              :> area * floors
       @@ "bedrooms_x_bathrooms"       :> bedrooms * bathrooms
       @@ "bedrooms_x_floors"          :> bedrooms * floors
       @@ "luxury_score"               :> LuxuryScoreOnline(area, bathrooms, furnCode)
       @@ "area_in_ho62_chi1_minh"     :> (IF city = "Ho62 Chi1 Minh" THEN area ELSE 0)
       @@ "area_in_ha2_no65i"          :> (IF city = "Ha2 No65i" THEN area ELSE 0)
       @@ "area_in_bi2nh_du7o7ng"      :> (IF city = "Bi2nh Du7o7ng" THEN area ELSE 0)
       @@ "area_in_d9a2_na84ng"        :> (IF city = "D9a2 Na84ng" THEN area ELSE 0)
       @@ "room_density"               :> Div(total_rooms, Max(area, 1))
       @@ "access_quality"             :> AccessQualityOnline(accessRoad)
       @@ "new_district_area_mean"     :>
              (IF found THEN Get(series, "area_mean", <<Div(70, 1)>>)
                        ELSE DefaultLocationStats["new_district_area_mean"])
       @@ "new_district_area_median"   :>
              (IF found THEN Get(series, "area_median", <<Div(65, 1)>>)
                        ELSE DefaultLocationStats["new_district_area_median"])
       @@ "new_district_area_std"      :>
              (IF found THEN Get(series, "area_std", <<Div(900, 1)>>)
                        ELSE DefaultLocationStats["new_district_area_std"])
       @@ "new_district_sample_count"  :>
              (IF found THEN Get(series, "sample_count", <<Div(100, 1)>>)
                        ELSE DefaultLocationStats["new_district_sample_count"])
       @@ "new_district_tier"          :>
              (IF found THEN Get(series, "tier", 2)
                        ELSE DefaultLocationStats["new_district_tier"])

\* the loop over EXPECTED_FEATURES: a missing feature defaults to 0
ResultDict(processed) ==
    [ keys  |-> EXPECTED_FEATURES,
      cells |-> [f \in Range(EXPECTED_FEATURES) |-> Get(processed, f, 0)] ]

\* pd.DataFrame([result]): one row, the columns in the dict's insertion order
DataFrameOf(resultDict) == [columns |-> resultDict.keys, row |-> resultDict.cells]

\* df[names]: the columns of that list, in the list's order
SelectColumns(df, names) ==
    [columns |-> names, row |-> [c \in Range(names) |-> df.row[c]]]

\* TreePreprocessService.preprocess(data)
preprocess(encoders, stats, seed, d) ==
    SelectColumns(DataFrameOf(ResultDict(Processed(encoders, stats, seed, d))),
                  EXPECTED_FEATURES)

(***************************************************************************)
(* The batch path's row-local columns: basic_preprocessing (flags, fills,  *)
(* ratios, bins) and create_interaction_features, for one raw row.         *)
(***************************************************************************)
AreaBinLabels == << "Ra61t nho3", "Nho3", "Trung bi2nh", "Lo71n", "Ra61t lo71n" >>

\* pd.cut(Area, bins=5, labels=...) over a frame whose Area spans lo..hi:
\* equal-width, right-closed bins, the lowest value in the first bin
AreaBinLabel(area, lo, hi) ==
    IF lo = hi THEN AreaBinLabels[3]
    ELSE AreaBinLabels[CHOOSE i \in 1..5 :
            /\ 5 * (area - lo) <= i * (hi - lo)
            /\ \A j \in 1..(i - 1) : 5 * (area - lo) > j * (hi - lo)]

\* create_interaction_features: luxury_score
LuxuryScoreBatch(area, bedrooms, bathrooms, floors) ==
      (IF bathrooms >= 4 THEN 1 ELSE 0)
    + (IF bedrooms >= 5 THEN 1 ELSE 0)
    + (IF floors >= 4 THEN 1 ELSE 0)
    + (IF area > 140 THEN 1 ELSE 0)

\* create_interaction_features: access_quality
AccessQualityBatch(accessRoad, frontage) ==
    (IF accessRoad > 0 THEN 1 ELSE 0) + (IF frontage > 0 THEN 1 ELSE 0)

\* x.replace(0, 1)
Replace0By1(x) == IF x = 0 THEN 1 ELSE x

\* The derived columns of the training row that holds the attribute values
\* of the raw record d (Area, Bedrooms, Bathrooms, Floors given; Frontage and
\* Access Road given or missing; the city is the row's new_city), in a frame
\* whose Area spans lo..hi and whose Area_binned encoder has these classes.
BatchDerived(d, lo, hi, binClasses) ==
    LET area        == d["Area"]
        bedrooms    == d["Bedrooms"]
        bathrooms   == d["Bathrooms"]
        floors      == d["Floors"]
        \* add_binary_flag(...).fill_value(..., 0)
        accessRoad  == Get(d, "AccessRoad", 0)
        frontage    == Get(d, "Frontage", 0)
        city        == Get(d, "City", "Unknown")
        total_rooms == bedrooms + bathrooms
    IN    "new_has_access_road"        :> (IF "AccessRoad" \in DOMAIN d THEN 1 ELSE 0)
       @@ "has_frontage"               :> (IF "Frontage" \in DOMAIN d THEN 1 ELSE 0)
       @@ "new_bathroom_bedroom_ratio" :> Div(bathrooms, Replace0By1(bedrooms))
       @@ "new_total_rooms"            :> total_rooms
       @@ "new_avg_room_size"          :> Div(area, Replace0By1(total_rooms))
       @@ "Area_binned"                :> EncodeOrUnknown(binClasses, AreaBinLabel(area, lo, hi))
       @@ "area_x_bathrooms"           :> area * bathrooms
       @@ "area_x_bedrooms"            :> area * bedrooms
       @@ "area_x_floors"              :> area * floors
       @@ "bedrooms_x_bathrooms"       :> bedrooms * bathrooms
       @@ "bedrooms_x_floors"          :> bedrooms * floors
       @@ "luxury_score"               :> LuxuryScoreBatch(area, bedrooms, bathrooms, floors)
       @@ "area_in_ho62_chi1_minh"     :> (IF city = "Ho62 Chi1 Minh" THEN area ELSE 0)
       @@ "area_in_ha2_no65i"          :> (IF city = "Ha2 No65i" THEN area ELSE 0)
       @@ "area_in_bi2nh_du7o7ng"      :> (IF city = "Bi2nh Du7o7ng" THEN area ELSE 0)
       @@ "area_in_d9a2_na84ng"        :> (IF city = "D9a2 Na84ng" THEN area ELSE 0)
       @@ "room_density"               :> Div(total_rooms, Replace0By1(area))
       @@ "access_quality"             :> AccessQualityBatch(accessRoad, frontage)

(***************************************************************************)
(* The artifacts a service instance loads: fitted by the batch pipeline    *)
(* from a training partition.                                              *)
(***************************************************************************)
EncodedColumns ==
    << "House direction", "Balcony direction", "Legal status", "Furniture state",
       "Area_binned", "new_city", "new_district", "new_street_ward" >>

TrainRow(area, city, district, ward, hdir, bdir, legal, furniture) ==
       "Area" :> area @@ "new_city" :> city @@ "new_district" :> district
    @@ "new_street_ward" :> ward @@ "House direction" :> hdir
    @@ "Balcony direction" :> bdir @@ "Legal status" :> legal
    @@ "Furniture state" :> furniture

\* two training frames: the rows of the training partition (after the fills
\* and the rare-category grouping) and the Area range of the whole frame
FrameA ==
    [ rows |-> << TrainRow(50, "Ho62 Chi1 Minh", "Qua65n 1", "Other", "Nam",
                           "Unknown", "So63 ho62ng", "D9a62y d9u3"),
                  TrainRow(120, "Ho62 Chi1 Minh", "Qua65n 7", "Other", "D9o6ng - Nam",
                           "Nam", "So63 d9o3", "Co7 ba3n"),
                  TrainRow(150, "Ha2 No65i", "Qua65n 1", "P. Be61n Nghe1", "Kho6ng ro4",
                           "Unknown", "So63 ho62ng", "Kho6ng ro4") >>,
      area_min |-> 20, area_max |-> 520 ]

FrameB ==
    [ rows |-> << TrainRow(25, "Ha2 No65i", "Qua65n 7", "Other", "Ba81c",
                           "Unknown", "So63 d9o3", "Kho6ng ro4"),
                  TrainRow(150, "D9a2 Na84ng", "Other", "Other", "Nam",
                           "Nam", "Kho6ng ro4", "D9a62y d9u3") >>,
      area_min |-> 25, area_max |-> 150 ]

\* the frame with its Area_binned column (create_bins in basic_preprocessing)
Binned(frame) ==
    SetColumn(frame.rows, "Area_binned",
              [i \in DOMAIN frame.rows |->
                  AreaBinLabel(frame.rows[i]["Area"], frame.area_min, frame.area_max)])

\* the label_encoders artifact of split_and_encode for this frame
EncodersOf(frame) ==
    [c \in Range(EncodedColumns) |-> LabelEncoderFit(Column(Binned(frame), c))]

\* the location_stats artifact of split_and_encode for this frame
StatsOf(frame) == create_location_features_train(frame.rows).location_stats

EmptyDict == [k \in {} |-> <<>>]

\* an artifact path: the file loads, does not exist, or joblib.load raises
FileStates == {"ok", "missing", "corrupt"}

\* a constructor that gives up both artifacts when one of them fails
ServiceInitAllOrNothing(found, frame) ==
    [ label_encoders |-> IF found.encoders = "ok" /\ found.stats = "ok"
                         THEN EncodersOf(frame) ELSE EmptyDict,
      location_stats |-> IF found.encoders = "ok" /\ found.stats = "ok"
                         THEN StatsOf(frame) ELSE None ]

\* __init__: label_encoders = {} and location_stats = None, then each
\* artifact is loaded when its path exists and joblib.load returns; a load
\* that raises is logged and the attribute keeps its initial value
ServiceInit(found, frame) ==
    [ label_encoders |-> IF found.encoders = "ok" THEN EncodersOf(frame) ELSE EmptyDict,
      location_stats |-> IF found.stats = "ok" THEN StatsOf(frame) ELSE None ]

\* the instances __init__ can build
LoadedArtifacts ==
    { [frame |-> f, files |-> found,
       label_encoders |-> ServiceInit(found, f).label_encoders,
       location_stats |-> ServiceInit(found, f).location_stats] :
        f \in {FrameA, FrameB},
        found \in [encoders : FileStates, stats : FileStates] }

(***************************************************************************)
(* The raw mappings handed to preprocess                                   *)
(***************************************************************************)
NumericKeys == {"Area", "Bedrooms", "Bathrooms", "Floors", "Frontage", "AccessRoad"}
CategoricalKeys == {"Direction", "BalconyDirection", "LegalStatus", "Furniture",
                    "City", "District", "Ward"}

Restrict(f, S) == [k \in S |-> f[k]]

Profile ==
       "Area" :> 120 @@ "Bedrooms" :> 3 @@ "Bathrooms" :> 2 @@ "Floors" :> 2
    @@ "Frontage" :> 4 @@ "AccessRoad" :> 3
    @@ "Direction" :> "d9o6ng nam" @@ "BalconyDirection" :> "Nam"
    @@ "LegalStatus" :> "so63 ho62ng" @@ "Furniture" :> "cao ca61p"
    @@ "City" :> " TPHCM " @@ "District" :> "Qua65n 7" @@ "Ward" :> "Other"

\* every subset of the numeric keys, and every subset of the categorical keys
KeySubsetInputs ==
    {Restrict(Profile, S \cup CategoricalKeys) : S \in SUBSET NumericKeys}
    \cup {Restrict(Profile, S \cup NumericKeys) : S \in SUBSET CategoricalKeys}

\* a key left out of a generated record
Absent == -2

\* whole-number records, with and without Frontage / AccessRoad, and a
\* record whose Area is blank
NumericInputs ==
    { Restrict(r, {k \in DOMAIN r : r[k] # Absent}) @@ ("City" :> "Ha2 No65i") :
        r \in [ Area : {25, 150}, Bedrooms : {0, 5}, Bathrooms : {0, 3},
                Floors : {1, 4}, Frontage : {Absent, 4},
                AccessRoad : {Absent, 0, 3, 6} ] }
    \cup { [Profile EXCEPT !["Area"] = Blank] }

CategoryValues(k) ==
    CASE k \in {"Direction", "BalconyDirection"} -> {"Nam", "D9o6ng - Nam", "Qua65n 99", ""}
      [] k = "LegalStatus" -> {"So63 ho62ng", "Unknown"}
      [] k = "Furniture"   -> {"D9a62y d9u3", "Unknown"}
      [] k = "City"        -> {"Ha2 No65i", "Sa2i Go2n", "Qua65n 99", ""}
      [] k = "District"    -> {"Qua65n 1", "Qua65n 99", "new_district_area_mean"}
      [] OTHER             -> {"P. Be61n Nghe1", "Unknown"}

\* the profile with one categorical key changed
CategoricalInputs ==
    { [Profile EXCEPT ![k] = v] : <<k, v>> \in
        UNION { {<<k, v>> : v \in CategoryValues(k)} : k \in CategoricalKeys } }

RawInputs ==
    KeySubsetInputs \cup NumericInputs \cup CategoricalInputs \cup {Restrict(Profile, {})}

(***************************************************************************)
(* The online service as a state machine                                   *)
(***************************************************************************)
NoCall == [none |-> TRUE]

\* the request handlers that can be inside preprocess at the same time
NumCalls == 2
CallIds == 1..NumCalls

\* no call in flight: every handler idle, holding no mapping and no frame
IdleCalls ==
    [ pc        |-> [c \in CallIds |-> "idle"],
      data      |-> [c \in CallIds |-> NoCall],
      processed |-> [c \in CallIds |-> EmptyDict],
      result    |-> [c \in CallIds |-> NoCall] ]

BatchIdle ==
    /\ path = "none" /\ pc = "idle" /\ config = None
    /\ test_size = <<1, 5>> /\ copy_on_write = FALSE
    /\ df_basic = <<>> /\ df_work = <<>> /\ rare = None
    /\ df_basic2 = <<>> /\ rare2 = None
    /\ X_train = <<>> /\ y_train = <<>> /\ X_test = <<>> /\ y_test = <<>>
    /\ X_test2 = <<>> /\ fitted = None /\ fitted2 = None
    /\ fit_log = <<>> /\ trace = <<>>

\* the state after TreePreprocessService.__init__
InitServe ==
    /\ \E a \in LoadedArtifacts :
          /\ label_encoders = a.label_encoders
          /\ location_stats = a.location_stats
          /\ train_frame = a.frame
          /\ files = a.files
    /\ hash_seed \in 1..NumHashSeeds
    /\ data = NoCall
    /\ result = NoCall
    /\ called = FALSE
    /\ calls = IdleCalls
    /\ prediction = NoCall /\ unit = NoCall /\ prep = NoCall
    /\ BatchIdle

\* a request handler calls preprocess(data) and holds the returned frame
Preprocess ==
    /\ IsNone(data)
    /\ \E d \in RawInputs :
          /\ data' = d
          /\ result' = preprocess(label_encoders, location_stats, hash_seed, d)
    /\ called' = TRUE
    /\ UNCHANGED <<label_encoders, location_stats, train_frame, files, unit, prep, prediction,
                   hash_seed, calls>>
    /\ UNCHANGED batchVars

\* the request ends: its mapping and its frame are dropped
EndRequest ==
    /\ ~IsNone(data)
    /\ data' = NoCall
    /\ result' = NoCall
    /\ UNCHANGED <<label_encoders, location_stats, train_frame, files, unit, prep, prediction,
                   hash_seed, called,
                   calls>>
    /\ UNCHANGED batchVars

NextServe == Preprocess \/ EndRequest

SpecServe == InitServe /\ [][NextServe]_vars

(***************************************************************************)
(* Claims about the online service                                         *)
(***************************************************************************)
NumFeatures == 41

\* C1: every preprocess call returns one row whose columns, in order, are
\* the 41 names of EXPECTED_FEATURES, and that list equals, position by
\* position, the list TreeModelService selects by.
C1_ColumnOrderContract ==
    ~IsNone(result) =>
        /\ result.columns = EXPECTED_FEATURES
        /\ Len(result.columns) = NumFeatures
        /\ DOMAIN result.row = Range(result.columns)
        /\ Cardinality(DOMAIN result.row) = NumFeatures
        /\ Len(MODEL_EXPECTED_FEATURES) = Len(EXPECTED_FEATURES)
        /\ \A i \in DOMAIN EXPECTED_FEATURES :
              MODEL_EXPECTED_FEATURES[i] = EXPECTED_FEATURES[i]

\* a call whose mapping leaves out numeric and categorical keys has returned
C1_Witness ==
    /\ ~IsNone(result)
    /\ "Area" \notin DOMAIN data
    /\ "Bedrooms" \notin DOMAIN data
    /\ "Ward" \in DOMAIN data
    /\ result.columns = EXPECTED_FEATURES

DerivedColumns ==
    { "new_has_access_road", "has_frontage", "new_bathroom_bedroom_ratio",
      "new_total_rooms", "new_avg_room_size", "Area_binned", "area_x_bathrooms",
      "area_x_bedrooms", "area_x_floors", "bedrooms_x_bathrooms",
      "bedrooms_x_floors", "luxury_score", "area_in_ho62_chi1_minh",
      "area_in_ha2_no65i", "area_in_bi2nh_du7o7ng", "area_in_d9a2_na84ng",
      "room_density", "access_quality" }

\* the raw record is a row of the training frame as far as the claim's
\* attributes go: the four room/area attributes are given, its Area lies in
\* the frame's range and the frame's encoders are loaded
IsTrainingRecord(d) ==
    /\ {"Area", "Bedrooms", "Bathrooms", "Floors", "City"} \subseteq DOMAIN d
    /\ d["Area"] # Blank
    /\ d["Area"] >= train_frame.area_min /\ d["Area"] <= train_frame.area_max
    /\ "Area_binned" \in DOMAIN label_encoders

\* C2: every derived column preprocess outputs has the value the batch path
\* gives a training row with the same attribute values.
C2_OnlineEqualsBatch ==
    (~IsNone(result) /\ IsTrainingRecord(data)) =>
        \A c \in DerivedColumns :
            result.row[c] =
                BatchDerived(data, train_frame.area_min, train_frame.area_max,
                             label_encoders["Area_binned"])[c]

\* the input key of each encoded column
InputKeyOf ==
       "House direction" :> "Direction" @@ "Balcony direction" :> "BalconyDirection"
    @@ "Legal status" :> "LegalStatus" @@ "Furniture state" :> "Furniture"
    @@ "new_city" :> "City" @@ "new_district" :> "District"
    @@ "new_street_ward" :> "Ward"

\* the category an input value stands for: the city through the synonym
\* table, every other value as given
NormalizedCategory(col, v) == IF col = "new_city" THEN _normalize_city(v) ELSE v

\* C8: with the persisted encoders loaded, every categorical input whose
\* category was seen in training is encoded with the code the train-fitted
\* LabelEncoder of its column assigns to that category.
C8_ServeCodeIsTrainCode ==
    (~IsNone(result) /\ DOMAIN label_encoders # {}) =>
        \A col \in DOMAIN InputKeyOf :
            (/\ InputKeyOf[col] \in DOMAIN data
             /\ NormalizedCategory(col, data[InputKeyOf[col]])
                    \in Range(label_encoders[col]))
            => result.row[col] =
                  LabelEncoderTransform(label_encoders[col],
                      NormalizedCategory(col, data[InputKeyOf[col]]))

\* C9: a categorical value that was not seen during fit is encoded as -1,
\* for each of the seven categorical inputs.
C9_UnseenIsMinusOne ==
    (~IsNone(result) /\ DOMAIN label_encoders # {}) =>
        \A col \in DOMAIN InputKeyOf :
            (/\ InputKeyOf[col] \in DOMAIN data
             /\ NormalizedCategory(col, data[InputKeyOf[col]])
                    \notin Range(label_encoders[col]))
            => result.row[col] = -1

(***************************************************************************)
(* Batch frames.  A row carries its pandas index label in "index"; the     *)
(* other keys are its columns.  train_test_split returns a shuffled        *)
(* partition; the model keeps the frame's row order inside each part.      *)
(***************************************************************************)
Indexes(t) == {t[i]["index"] : i \in DOMAIN t}

Columns(t) == IF t = <<>> THEN {} ELSE DOMAIN t[1] \ {"index"}

\* df.drop(columns=cols, errors='ignore')
DropColumns(t, cols) == [i \in DOMAIN t |-> [c \in DOMAIN t[i] \ cols |-> t[i][c]]]

\* df[cols]
TakeColumns(t, cols) ==
    [i \in DOMAIN t |-> [c \in DOMAIN t[i] \cap (cols \cup {"index"}) |-> t[i][c]]]

\* row[c] = v where the row has the column c
SetCell(row, c, v) == IF c \in DOMAIN row THEN [row EXCEPT ![c] = v] ELSE row

\* [col for col in names if col in X.columns]
ExistingColumns(names, t) ==
    Filter(names, [i \in DOMAIN names |-> names[i] \in Columns(t)])

FracSub(a, b) == Div(a[1] * b[2] - b[1] * a[2], a[2] * b[2])
FracMul(a, b) == Div(a[1] * b[1], a[2] * b[2])
FracLE(a, b) == a[1] * b[2] <= b[1] * a[2]

\* ceil(test_size * n), the number of test rows of train_test_split
NTest(n, ts) == (n * ts[1] + ts[2] - 1) \div ts[2]

\* the sets of positions train_test_split may send to the test partition
SplitChoices(n, ts) == {S \in SUBSET (1..n) : Cardinality(S) = NTest(n, ts)}

\* Series.quantile(k / 4) with linear interpolation
Quantile(xs, k) ==
    LET s  == SortNums(xs)
        lo == (k * (Len(xs) - 1)) \div 4
        r  == (k * (Len(xs) - 1)) % 4
    IN  IF r = 0 THEN Div(s[lo + 1], 1)
        ELSE Div(4 * s[lo + 1] + r * (s[lo + 2] - s[lo + 1]), 4)

\* lower = Q1 - multiplier * IQR, upper = Q3 + multiplier * IQR
IQRBounds(prices, multiplier) ==
    LET Q1  == Quantile(prices, 1)
        Q3  == Quantile(prices, 3)
        IQR == FracSub(Q3, Q1)
    IN  [lower |-> FracSub(Q1, FracMul(multiplier, IQR)),
         upper |-> FracAdd(Q3, FracMul(multiplier, IQR))]

\* a mask that also drops the rows on the bounds
OutlierMaskStrict(y, multiplier) ==
    LET b == IQRBounds(Column(y, "Price"), multiplier)
    IN  [i \in DOMAIN y |-> /\ ~FracLE(<<y[i]["Price"], 1>>, b.lower)
                            /\ ~FracLE(b.upper, <<y[i]["Price"], 1>>)]

\* mask = (y_train >= lower) & (y_train <= upper)
OutlierMask(y, multiplier) ==
    LET b == IQRBounds(Column(y, "Price"), multiplier)
    IN  [i \in DOMAIN y |-> /\ FracLE(b.lower, <<y[i]["Price"], 1>>)
                            /\ FracLE(<<y[i]["Price"], 1>>, b.upper)]

(***************************************************************************)
(* sklearn StandardScaler.  A scaled cell (x - mean) / sqrt(var) is kept   *)
(* as the pair of its numerator and the variance under the root.           *)
(***************************************************************************)
StandardScalerFit(t, cols) ==
    LET n        == Len(t)
        sum(c)   == SeqSum(Column(t, c))
        sumsq(c) == SeqSum([i \in DOMAIN t |-> t[i][c] * t[i][c]])
    IN  [columns |-> cols,
         mean |-> [c \in Range(cols) |-> Div(sum(c), n)],
         var  |-> [c \in Range(cols) |-> Div(n * sumsq(c) - sum(c) * sum(c), n * n)]]

\* a zero variance is replaced by 1 before dividing
StandardScalerTransform(scaler, t) ==
    [i \in DOMAIN t |->
        [c \in DOMAIN t[i] |->
            IF c \in Range(scaler.columns)
            THEN [dev |-> FracSub(<<t[i][c], 1>>, scaler.mean[c]),
                  var |-> IF scaler.var[c][1] = 0 THEN <<1, 1>> ELSE scaler.var[c]]
            ELSE t[i][c]]]

(***************************************************************************)
(* Configuration dicts, flattened to records                               *)
(***************************************************************************)
\* the default config of tree_optimized_pipeline
DefaultConfig ==
    [ outlier_enabled      |-> TRUE,
      outlier_method       |-> "iqr",
      iqr_multiplier       |-> <<3, 2>>,
      low_cardinality      |-> << "House direction", "Balcony direction", "Legal status",
                                  "Furniture state", "Area_binned", "new_city" >>,
      high_cardinality     |-> << "new_district", "new_street_ward" >>,
      rare_threshold       |-> 100,
      scale_interactions   |-> FALSE,
      interaction_columns  |-> <<>>,
      interactions_enabled |-> TRUE,
      location_enabled     |-> TRUE,
      exclude_features     |-> << "Address" >> ]

ConfigPool ==
    { DefaultConfig,
      [DefaultConfig EXCEPT !.iqr_multiplier = <<1, 2>>,
                            !.scale_interactions = TRUE,
                            !.interaction_columns = <<"area_x_floors">>],
      [DefaultConfig EXCEPT !.outlier_enabled = FALSE,
                            !.scale_interactions = TRUE,
                            !.interaction_columns = <<"area_x_floors", "luxury_score">>],
      [DefaultConfig EXCEPT !.outlier_method = "zscore",
                            !.location_enabled = FALSE,
                            !.scale_interactions = TRUE] }

TestSizes == { <<1, 5>>, <<2, 5>> }

(***************************************************************************)
(* Frames given to split_and_encode                                        *)
(***************************************************************************)
SplitRow(i, price, area, district, city, direction, axf) ==
       "index" :> i @@ "Price" :> price @@ "Area" :> area
    @@ "new_district" :> district @@ "new_city" :> city
    @@ "House direction" :> direction @@ "area_x_floors" :> axf
    @@ "Address" :> "Other"

EnhancedFrame ==
    << SplitRow(1, 10, 40, "Qua65n 1", "Ho62 Chi1 Minh", "Nam", 40),
       SplitRow(2, 11, 60, "Qua65n 1", "Ho62 Chi1 Minh", "Ba81c", 120),
       SplitRow(3, 12, 80, "Qua65n 7", "Ho62 Chi1 Minh", "Nam", 80),
       SplitRow(4, 13, 50, "Other", "Ha2 No65i", "Ta6y", 100),
       SplitRow(5, 100, 300, "Other", "Ha2 No65i", "D9o6ng", 600) >>

SplitFrames ==
    { EnhancedFrame,
      DropColumns(EnhancedFrame, {"new_district", "Address"}),
      DropColumns(EnhancedFrame, {"Price"}) }

\* the test partitions of a second run on the same training rows: a test
\* row removed, a test row added, a test row changed
ShadowTests(Xte) ==
    { SubSeq(Xte, 1, Len(Xte) - 1),
      Xte \o << [Xte[1] EXCEPT !["index"] = 6, !["Area"] = 500,
                               !["House direction"] = "Ta6y"] >>,
      [Xte EXCEPT ![1] = SetCell([Xte[1] EXCEPT !["Area"] = 999,
                                                !["House direction"] = "Ba81c"],
                                 "new_district", "Qua65n 1")] }

(***************************************************************************)
(* enhanced_preprocessing.py: rare categories and interaction features     *)
(***************************************************************************)
\* df[column].value_counts()[v]
ValueCount(t, column, v) == Cardinality({i \in DOMAIN t : t[i][column] = v})

\* the categories a threshold test of "at most min_count" would select
RareCategoriesInclusive(t, column, min_count) ==
    IF column \notin Columns(t) THEN {}
    ELSE {v \in Range(Column(t, column)) : ValueCount(t, column, v) <= min_count}

\* value_counts[value_counts < min_count].index
RareCategories(t, column, min_count) ==
    IF column \notin Columns(t) THEN {}
    ELSE {v \in Range(Column(t, column)) : ValueCount(t, column, v) < min_count}

group_rare_categories(t, column, min_count, group_name) ==
    IF column \notin Columns(t) THEN t
    ELSE LET rare_categories == RareCategories(t, column, min_count)
         IN  [i \in DOMAIN t |->
                [t[i] EXCEPT ![column] = IF @ \in rare_categories THEN group_name ELSE @]]

remove_rare_categories(t, column, min_count) ==
    IF column \notin Columns(t) THEN t
    ELSE LET rare_categories == RareCategories(t, column, min_count)
         IN  Filter(t, [i \in DOMAIN t |-> t[i][column] \notin rare_categories])

\* the columns create_interaction_features adds to one row
InteractionsOfRow(r) ==
    LET has(c) == c \in DOMAIN r
        cityMask(city) == IF r["new_city"] = city THEN r["Area"] ELSE 0
    IN  (IF has("Area") /\ has("Bathrooms")
         THEN "area_x_bathrooms" :> r["Area"] * r["Bathrooms"] ELSE <<>>)
     @@ (IF has("Area") /\ has("Bedrooms")
         THEN "area_x_bedrooms" :> r["Area"] * r["Bedrooms"] ELSE <<>>)
     @@ (IF has("Area") /\ has("Floors")
         THEN "area_x_floors" :> r["Area"] * r["Floors"] ELSE <<>>)
     @@ (IF has("Bedrooms") /\ has("Bathrooms")
         THEN "bedrooms_x_bathrooms" :> r["Bedrooms"] * r["Bathrooms"] ELSE <<>>)
     @@ (IF has("Bedrooms") /\ has("Floors")
         THEN "bedrooms_x_floors" :> r["Bedrooms"] * r["Floors"] ELSE <<>>)
     @@ (IF {"Bathrooms", "Bedrooms", "Floors", "Area"} \subseteq DOMAIN r
         THEN "luxury_score" :>
                 LuxuryScoreBatch(r["Area"], r["Bedrooms"], r["Bathrooms"], r["Floors"])
         ELSE <<>>)
     @@ (IF has("new_city") /\ has("Area")
         THEN    "area_in_ho62_chi1_minh" :> cityMask("Ho62 Chi1 Minh")
              @@ "area_in_ha2_no65i" :> cityMask("Ha2 No65i")
              @@ "area_in_bi2nh_du7o7ng" :> cityMask("Bi2nh Du7o7ng")
              @@ "area_in_d9a2_na84ng" :> cityMask("D9a2 Na84ng")
         ELSE <<>>)
     @@ (IF has("Area") /\ has("new_total_rooms")
         THEN "room_density" :> Div(r["new_total_rooms"], Replace0By1(r["Area"]))
         ELSE <<>>)
     @@ (IF has("Access Road") /\ has("Frontage")
         THEN "access_quality" :> AccessQualityBatch(r["Access Road"], r["Frontage"])
         ELSE <<>>)

\* a new column overwrites a column of the same name
create_interaction_features(t) == [i \in DOMAIN t |-> InteractionsOfRow(t[i]) @@ t[i]]

CityMinCount == 10

\* the three frames of Phase 2, and the categories each step found rare
RareSteps(t, cfg) ==
    LET cities    == remove_rare_categories(t, "new_city", CityMinCount)
        districts == group_rare_categories(cities, "new_district",
                                           cfg.rare_threshold, "Other")
        wards     == group_rare_categories(districts, "new_street_ward",
                                           cfg.rare_threshold, "Other")
    IN  [ frame |-> wards,
          rare  |-> [ new_city        |-> RareCategories(t, "new_city", CityMinCount),
                      new_district    |-> RareCategories(cities, "new_district",
                                                         cfg.rare_threshold),
                      new_street_ward |-> RareCategories(districts, "new_street_ward",
                                                         cfg.rare_threshold) ] ]

\* enhanced_preprocessing(df, config['preprocessing'])
enhanced_preprocessing(t, cfg) ==
    IF cfg.interactions_enabled THEN create_interaction_features(RareSteps(t, cfg).frame)
    ELSE RareSteps(t, cfg).frame

(***************************************************************************)
(* Frames and configurations given to tree_optimized_pipeline.  A row is   *)
(* the projection of a basic_preprocessing row on the columns the later    *)
(* steps of the model read.                                                *)
(***************************************************************************)
BasicRow(i, price, area, bedrooms, floors, district, ward, direction) ==
       "index" :> i @@ "Price" :> price @@ "Area" :> area
    @@ "Bedrooms" :> bedrooms @@ "Bathrooms" :> 2 @@ "Floors" :> floors
    @@ "Access Road" :> 3 @@ "Frontage" :> 0
    @@ "new_total_rooms" :> bedrooms + 2
    @@ "new_city" :> "Ho62 Chi1 Minh" @@ "new_district" :> district
    @@ "new_street_ward" :> ward @@ "House direction" :> direction
    @@ "Address" :> "Other"

BasicFrame ==
    << BasicRow(1, 10, 40, 1, 1, "Qua65n 1", "P. Be61n Nghe1", "Nam"),
       BasicRow(2, 11, 45, 2, 2, "Qua65n 1", "P. Be61n Nghe1", "Ba81c"),
       BasicRow(3, 12, 50, 2, 1, "Qua65n 1", "P. Be61n Nghe1", "Nam"),
       BasicRow(4, 13, 60, 3, 2, "Qua65n 1", "P. Be61n Nghe1", "Ta6y"),
       BasicRow(5, 14, 70, 3, 3, "Qua65n 1", "P. Be61n Nghe1", "Nam"),
       BasicRow(6, 15, 80, 3, 4, "Qua65n 7", "Other", "Nam"),
       BasicRow(7, 16, 90, 4, 2, "Qua65n 7", "Other", "Ba81c"),
       BasicRow(8, 17, 100, 4, 3, "Qua65n 7", "Other", "Nam"),
       BasicRow(9, 18, 150, 5, 4, "Qua65n 7", "Other", "Ta6y"),
       BasicRow(10, 90, 400, 5, 5, "Qua65n 7", "Other", "D9o6ng"),
       [BasicRow(11, 19, 55, 2, 2, "Other", "Other", "Nam")
            EXCEPT !["new_city"] = "Ha2 No65i"] >>

PipelineConfigs == { DefaultConfig, [DefaultConfig EXCEPT !.rare_threshold = 5] }

\* a second input that differs from t in one row
ShadowPositions == {1, 10}

ShadowFrames(t) ==
    UNION { { [t EXCEPT ![p] = [t[p] EXCEPT !["new_city"] = "D9a2 Na84ng"]],
              [t EXCEPT ![p] = [t[p] EXCEPT !["new_district"] = "Other"]] }
            : p \in ShadowPositions }

(***************************************************************************)
(* split_and_encode and tree_optimized_pipeline as a state machine         *)
(***************************************************************************)
ServeIdle ==
    /\ label_encoders = EmptyDict /\ location_stats = None /\ train_frame = None
    /\ files = None
    /\ hash_seed = 1 /\ data = NoCall /\ result = NoCall /\ called = FALSE
    /\ calls = IdleCalls /\ prediction = NoCall
    /\ unit = NoCall /\ prep = NoCall

RunEmpty ==
    /\ X_train = <<>> /\ y_train = <<>> /\ X_test = <<>> /\ y_test = <<>>
    /\ fitted = None /\ fit_log = <<>> /\ trace = <<>>
    /\ X_test2 = <<>> /\ fitted2 = None /\ rare = None /\ rare2 = None

inputVars == <<path, config, test_size, copy_on_write, df_basic, df_basic2>>
frameVars == <<df_work, rare, rare2>>

\* label_encoders = {}, location_stats = None, scaler = None
NoArtifacts ==
    [label_encoders |-> EmptyDict, location_stats |-> None, scaler |-> None,
     ids |-> EmptyDict]

Stage(name, column, obj) == [stage |-> name, column |-> column, obj |-> obj]

\* has train_test_split run?
SplitDone == X_train # <<>> \/ X_test # <<>>

\* the record of one fit: the object created, the rows it was fitted on
FitEntry(kind, column, rows) ==
    [kind |-> kind, column |-> column, saw |-> Indexes(rows),
     split_done |-> SplitDone, obj |-> Len(fit_log) + 1]

\* a call split_and_encode(df, config, test_size)
InitSplit ==
    /\ ServeIdle /\ RunEmpty
    /\ path = "split_and_encode" /\ pc = "start"
    /\ config \in ConfigPool /\ test_size \in TestSizes
    /\ copy_on_write \in BOOLEAN
    /\ df_work \in SplitFrames
    /\ df_basic = <<>> /\ df_basic2 = <<>>

\* tree_optimized_pipeline after Step 2 (basic_preprocessing), and a second
\* run whose input differs in one row
InitPipeline ==
    /\ ServeIdle /\ RunEmpty
    /\ path = "tree_optimized_pipeline" /\ pc = "enhance"
    /\ config \in PipelineConfigs /\ test_size = <<1, 5>>
    /\ copy_on_write \in BOOLEAN
    /\ df_basic = BasicFrame /\ df_basic2 \in ShadowFrames(BasicFrame)
    /\ df_work = <<>>

\* Step 3: df_enhanced = enhanced_preprocessing(df_basic, config['preprocessing'])
EnhancedPreprocessing ==
    /\ path = "tree_optimized_pipeline" /\ pc = "enhance"
    /\ df_work' = enhanced_preprocessing(df_basic, config)
    /\ rare' = RareSteps(df_basic, config).rare
    /\ rare2' = RareSteps(df_basic2, config).rare
    /\ pc' = "start"
    /\ UNCHANGED <<X_train, y_train, X_test, y_test, fitted, fit_log, trace,
                   X_test2, fitted2>>
    /\ UNCHANGED inputVars /\ UNCHANGED serveVars

\* a check that lets every table through
PriceMissingNever(t) == FALSE

\* "Price" not in df.columns
PriceMissing(t) == "Price" \notin Columns(t)

\* Phase 1: the Price check, the exclusion of features, train_test_split
Split ==
    /\ path \in {"split_and_encode", "tree_optimized_pipeline"} /\ pc = "start"
    /\ LET df_clean == DropColumns(df_work, Range(config.exclude_features))
           n        == Len(df_clean)
           X        == DropColumns(df_clean, {"Price"})
           y        == TakeColumns(df_clean, {"Price"})
       IN  IF PriceMissing(df_work) \/ NTest(n, test_size) = n
           THEN /\ pc' = "raised"
                /\ UNCHANGED <<X_train, y_train, X_test, y_test, fitted, fit_log,
                               trace, X_test2, fitted2>>
           ELSE \E S \in SplitChoices(n, test_size) :
                  LET inTest  == [i \in 1..n |-> i \in S]
                      inTrain == [i \in 1..n |-> i \notin S]
                  IN  /\ X_train' = Filter(X, inTrain)
                      /\ y_train' = Filter(y, inTrain)
                      /\ X_test' = Filter(X, inTest)
                      /\ y_test' = Filter(y, inTest)
                      /\ fitted' = NoArtifacts
                      /\ trace' = <<Stage("split", "", 0)>>
                      /\ fit_log' = fit_log
                      /\ IF path = "split_and_encode"
                         THEN /\ X_test2' \in ShadowTests(Filter(X, inTest))
                              /\ fitted2' = NoArtifacts
                         ELSE UNCHANGED <<X_test2, fitted2>>
                      /\ pc' = "split"
    /\ UNCHANGED frameVars /\ UNCHANGED inputVars /\ UNCHANGED serveVars

\* Phase 1.5: the IQR filter on the training partition
OutlierFilter ==
    /\ path \in {"split_and_encode", "tree_optimized_pipeline"} /\ pc = "split"
    /\ IF config.outlier_enabled /\ config.outlier_method = "iqr"
       THEN LET mask == OutlierMask(y_train, config.iqr_multiplier)
            IN  /\ X_train' = Filter(X_train, mask)
                /\ y_train' = Filter(y_train, mask)
                /\ trace' = Append(trace, Stage("outlier filter", "", 0))
       ELSE UNCHANGED <<X_train, y_train, trace>>
    /\ pc' = "filtered"
    /\ UNCHANGED <<X_test, y_test, fitted, fit_log, X_test2, fitted2>>
    /\ UNCHANGED frameVars /\ UNCHANGED inputVars /\ UNCHANGED serveVars

InSplitAndEncode == path \in {"split_and_encode", "tree_optimized_pipeline"}

\* a fit on the whole table
LocationFitRowsAll(Xtr, Xte) == Xtr \o Xte

\* the frame handed to create_location_features_train
LocationFitRows(Xtr, Xte) == Xtr

\* a fit on the whole table
EncoderFitRowsAll(Xtr, Xte) == Xtr \o Xte

\* the frame whose column is handed to LabelEncoder.fit_transform
EncoderFitRows(Xtr, Xte) == Xtr

\* the frame handed to StandardScaler.fit_transform
ScalerFitRows(Xtr, Xte) == Xtr

\* Phase 2, first half: X_train, location_stats = create_location_features_train(X_train)
LocationFit ==
    /\ InSplitAndEncode /\ pc = "filtered"
    /\ IF config.location_enabled /\ "new_district" \in Columns(X_train)
       THEN LET r  == create_location_features_train(LocationFitRows(X_train, X_test))
                r2 == create_location_features_train(LocationFitRows(X_train, X_test2))
                e  == FitEntry("location_stats", "new_district",
                               LocationFitRows(X_train, X_test))
            IN  /\ X_train' = r.df
                /\ fitted' = [fitted EXCEPT !.location_stats = r.location_stats,
                                            !.ids = ("location_stats" :> e.obj) @@ @]
                /\ fitted2' = IF IsNone(fitted2) THEN fitted2
                              ELSE [fitted2 EXCEPT !.location_stats = r2.location_stats]
                /\ fit_log' = Append(fit_log, e)
                /\ trace' = Append(trace, Stage("location fit", "new_district", e.obj))
                /\ pc' = "loc_fit"
       ELSE /\ pc' = "encode"
            /\ UNCHANGED <<X_train, fitted, fitted2, fit_log, trace>>
    /\ UNCHANGED <<y_train, X_test, y_test, X_test2>>
    /\ UNCHANGED frameVars /\ UNCHANGED inputVars /\ UNCHANGED serveVars

\* .astype(int) of the tier fails on a missing tier
TierCastFails(t) == \E i \in DOMAIN t : t[i]["new_district_tier"] = NoTier

\* Phase 2, second half: X_test = create_location_features_test(X_test, location_stats)
LocationApply ==
    /\ InSplitAndEncode /\ pc = "loc_fit"
    /\ LET applied  == create_location_features_test(X_test, fitted.location_stats,
                                                     copy_on_write)
           applied2 == create_location_features_test(X_test2, fitted2.location_stats,
                                                     copy_on_write)
       IN  /\ IF TierCastFails(applied)
              THEN pc' = "raised" /\ UNCHANGED <<X_test, trace>>
              ELSE /\ X_test' = applied
                   /\ trace' = Append(trace, Stage("location apply", "new_district",
                                                   fitted.ids["location_stats"]))
                   /\ pc' = "encode"
           /\ IF IsNone(fitted2) THEN UNCHANGED <<X_test2, fitted2>>
              ELSE IF TierCastFails(applied2)
                   THEN X_test2' = <<>> /\ fitted2' = None
                   ELSE X_test2' = applied2 /\ fitted2' = fitted2
    /\ UNCHANGED <<X_train, y_train, y_test, fitted, fit_log>>
    /\ UNCHANGED frameVars /\ UNCHANGED inputVars /\ UNCHANGED serveVars

\* all_cat_cols = low_card_cols + high_card_cols, each filtered to the
\* columns of X_train
AllCatCols ==
    ExistingColumns(config.low_cardinality, X_train)
        \o ExistingColumns(config.high_cardinality, X_train)

\* iterations of the encoding loop completed or begun
EncodersFitted == Cardinality(DOMAIN fitted.label_encoders)

\* Phase 3, loop body, first half: le = LabelEncoder();
\* X_train[col] = le.fit_transform(X_train[col].astype(str)); label_encoders[col] = le
EncoderFit ==
    /\ InSplitAndEncode /\ pc = "encode"
    /\ EncodersFitted < Len(AllCatCols)
    /\ LET col      == AllCatCols[EncodersFitted + 1]
           classes  == LabelEncoderFit(Column(EncoderFitRows(X_train, X_test), col))
           classes2 == LabelEncoderFit(Column(EncoderFitRows(X_train, X_test2), col))
           e        == FitEntry("label_encoder", col, EncoderFitRows(X_train, X_test))
       IN  /\ X_train' = SetColumn(X_train, col,
                  [i \in DOMAIN X_train |-> LabelEncoderTransform(classes, X_train[i][col])])
           /\ fitted' = [fitted EXCEPT !.label_encoders = (col :> classes) @@ @,
                                       !.ids = (col :> e.obj) @@ @]
           /\ fitted2' = IF IsNone(fitted2) THEN fitted2
                         ELSE [fitted2 EXCEPT !.label_encoders = (col :> classes2) @@ @]
           /\ fit_log' = Append(fit_log, e)
           /\ trace' = Append(trace, Stage("categorical fit", col, e.obj))
    /\ pc' = "enc_fit"
    /\ UNCHANGED <<y_train, X_test, y_test, X_test2>>
    /\ UNCHANGED frameVars /\ UNCHANGED inputVars /\ UNCHANGED serveVars

\* test values reach the encoder through .astype(str); the categorical
\* columns of the model hold strings
EncodeTest(Xte, col, classes) ==
    SetColumn(Xte, col, [i \in DOMAIN Xte |-> EncodeOrUnknown(classes, Xte[i][col])])

\* Phase 3, loop body, second half: the test column, unknown values as -1
EncoderApply ==
    /\ InSplitAndEncode /\ pc = "enc_fit"
    /\ LET col == AllCatCols[EncodersFitted]
       IN  /\ X_test' = EncodeTest(X_test, col, fitted.label_encoders[col])
           /\ X_test2' = IF IsNone(fitted2) THEN X_test2
                         ELSE EncodeTest(X_test2, col, fitted2.label_encoders[col])
           /\ trace' = Append(trace, Stage("categorical apply", col, fitted.ids[col]))
    /\ pc' = "encode"
    /\ UNCHANGED <<X_train, y_train, y_test, fitted, fitted2, fit_log>>
    /\ UNCHANGED frameVars /\ UNCHANGED inputVars /\ UNCHANGED serveVars

\* interaction_cols = [col for col in interaction_columns if col in X_train.columns]
InteractionCols == ExistingColumns(config.interaction_columns, X_train)

\* Phase 4, first half: scaler = StandardScaler();
\* X_train[interaction_cols] = scaler.fit_transform(X_train[interaction_cols])
ScalerFit ==
    /\ InSplitAndEncode /\ pc = "encode"
    /\ EncodersFitted = Len(AllCatCols)
    /\ IF config.scale_interactions /\ InteractionCols # <<>>
       THEN LET scaler  == StandardScalerFit(ScalerFitRows(X_train, X_test), InteractionCols)
                scaler2 == StandardScalerFit(ScalerFitRows(X_train, X_test2), InteractionCols)
                e       == FitEntry("scaler", "", ScalerFitRows(X_train, X_test))
            IN  /\ X_train' = StandardScalerTransform(scaler, X_train)
                /\ fitted' = [fitted EXCEPT !.scaler = scaler,
                                            !.ids = ("scaler" :> e.obj) @@ @]
                /\ fitted2' = IF IsNone(fitted2) THEN fitted2
                              ELSE [fitted2 EXCEPT !.scaler = scaler2]
                /\ fit_log' = Append(fit_log, e)
                /\ trace' = Append(trace, Stage("scaler fit", "", e.obj))
                /\ pc' = "scale_fit"
       ELSE /\ pc' = "scaled"
            /\ UNCHANGED <<X_train, fitted, fitted2, fit_log, trace>>
    /\ UNCHANGED <<y_train, X_test, y_test, X_test2>>
    /\ UNCHANGED frameVars /\ UNCHANGED inputVars /\ UNCHANGED serveVars

\* Phase 4, second half: X_test[interaction_cols] = scaler.transform(X_test[interaction_cols])
ScalerApply ==
    /\ InSplitAndEncode /\ pc = "scale_fit"
    /\ X_test' = StandardScalerTransform(fitted.scaler, X_test)
    /\ X_test2' = IF IsNone(fitted2) THEN X_test2
                  ELSE StandardScalerTransform(fitted2.scaler, X_test2)
    /\ trace' = Append(trace, Stage("scaler apply", "", fitted.ids["scaler"]))
    /\ pc' = "scaled"
    /\ UNCHANGED <<X_train, y_train, y_test, fitted, fitted2, fit_log>>
    /\ UNCHANGED frameVars /\ UNCHANGED inputVars /\ UNCHANGED serveVars

\* train_df['Price'] = y_train.values  (by position)
WithPrice(X, y) == SetColumn(X, "Price", Column(y, "Price"))

\* the frames and the artifacts dict split_and_encode returns
Assemble ==
    /\ InSplitAndEncode /\ pc = "scaled"
    /\ fitted' = [ feature_columns |-> Columns(X_train),
                   train_df |-> WithPrice(X_train, y_train),
                   test_df  |-> WithPrice(X_test, y_test) ] @@ fitted
    /\ fitted2' = IF IsNone(fitted2) THEN fitted2
                  ELSE [ feature_columns |-> Columns(X_train),
                         test_df |-> X_test2 ] @@ fitted2
    /\ trace' = Append(trace, Stage("artifact assembly", "", 0))
    /\ pc' = IF path = "split_and_encode" THEN "done" ELSE "save"
    /\ UNCHANGED <<X_train, y_train, X_test, y_test, X_test2, fit_log>>
    /\ UNCHANGED frameVars /\ UNCHANGED inputVars /\ UNCHANGED serveVars

\* Step 5 of tree_optimized_pipeline: the files written
SavedFiles(artifacts) ==
    {"train_optimized.csv", "test_optimized.csv", "preprocessing_report_optimized.txt"}
    \cup (IF DOMAIN artifacts.label_encoders # {} THEN {"encoders_optimized.pkl"} ELSE {})
    \cup (IF ~IsNone(artifacts.location_stats)
          THEN {"location_stats_optimized.pkl"} ELSE {})
    \cup (IF ~IsNone(artifacts.scaler) THEN {"scaler_optimized.pkl"} ELSE {})

SaveOutputs ==
    /\ path = "tree_optimized_pipeline" /\ pc = "save"
    /\ fitted' = [saved |-> SavedFiles(fitted)] @@ fitted
    /\ pc' = "done"
    /\ UNCHANGED <<X_train, y_train, X_test, y_test, X_test2, fitted2, fit_log, trace>>
    /\ UNCHANGED frameVars /\ UNCHANGED inputVars /\ UNCHANGED serveVars

NextSplit ==
    \/ EnhancedPreprocessing \/ Split \/ OutlierFilter
    \/ LocationFit \/ LocationApply \/ EncoderFit \/ EncoderApply
    \/ ScalerFit \/ ScalerApply \/ Assemble \/ SaveOutputs

SpecSplit == (InitSplit \/ InitPipeline) /\ [][NextSplit]_vars

(***************************************************************************)
(* Claims about split_and_encode and tree_optimized_pipeline               *)
(***************************************************************************)
\* the row of the frame given to split_and_encode that has index label idx
InputRow(idx) == CHOOSE r \in Range(df_work) : r["index"] = idx

StageRank(name) ==
    CASE name = "split"             -> 1
      [] name = "outlier filter"    -> 2
      [] name = "location fit"      -> 3
      [] name = "location apply"    -> 4
      [] name = "categorical fit"   -> 5
      [] name = "categorical apply" -> 6
      [] name = "scaler fit"        -> 7
      [] name = "scaler apply"      -> 8
      [] OTHER                      -> 9

IsFitStage(name) == name \in {"location fit", "categorical fit", "scaler fit"}
IsApplyStage(name) == name \in {"location apply", "categorical apply", "scaler apply"}
IsCategorical(e) == e.stage \in {"categorical fit", "categorical apply"}

\* every fitted object is new, was fitted after the split from training
\* rows only, is the object applied to the test partition, and is the one
\* held in the artifacts
FitsFreshTrainOnlyShared ==
    /\ \A i \in DOMAIN fit_log :
          /\ fit_log[i].obj = i
          /\ fit_log[i].split_done
          /\ fit_log[i].saw # {}
          /\ fit_log[i].saw \subseteq Indexes(X_train)
          /\ fit_log[i].saw \cap Indexes(X_test) = {}
    /\ \A j \in DOMAIN trace :
          /\ IsFitStage(trace[j].stage) =>
                /\ trace[j].obj \in DOMAIN fit_log
                /\ \A i \in 1..(j - 1) : trace[i].obj # trace[j].obj
          /\ IsApplyStage(trace[j].stage) =>
                /\ j > 1
                /\ IsFitStage(trace[j - 1].stage)
                /\ StageRank(trace[j - 1].stage) + 1 = StageRank(trace[j].stage)
                /\ trace[j - 1].obj = trace[j].obj
                /\ trace[j - 1].column = trace[j].column
    /\ \A i \in DOMAIN fit_log :
          LET key == IF fit_log[i].kind = "label_encoder" THEN fit_log[i].column
                     ELSE fit_log[i].kind
          IN  key \in DOMAIN fitted.ids /\ fitted.ids[key] = i

\* C3 as stated: the stages of split_and_encode run in one fixed order, none
\* repeated or revisited, and every fitted object is fresh, fitted on
\* training rows only, applied to the test partition and returned.
C3_StagesOnceInOrder ==
    (InSplitAndEncode /\ trace # <<>>) =>
        /\ \A i, j \in DOMAIN trace :
              i < j => StageRank(trace[i].stage) < StageRank(trace[j].stage)
        /\ FitsFreshTrainOnlyShared

\* C3, amended: the stages run in the fixed order and each once, except
\* that "categorical fit" and "categorical apply" alternate, one pair per
\* encoded column in the order of the configuration; every fitted object is
\* fresh, fitted on training rows only, applied to the test partition and
\* returned.
C3_StagesInOrderPerColumn ==
    (InSplitAndEncode /\ trace # <<>>) =>
        LET cat == SelectSeq(trace, IsCategorical)
        IN  /\ \A i, j \in DOMAIN trace :
                  (i < j /\ ~(IsCategorical(trace[i]) /\ IsCategorical(trace[j])))
                      => StageRank(trace[i].stage) < StageRank(trace[j].stage)
            /\ Len(cat) <= 2 * Len(AllCatCols)
            /\ \A m \in DOMAIN cat :
                  /\ cat[m].stage = IF m % 2 = 1 THEN "categorical fit"
                                    ELSE "categorical apply"
                  /\ cat[m].column = AllCatCols[(m + 1) \div 2]
            /\ pc = "done" => Len(cat) = 2 * Len(AllCatCols)
            /\ FitsFreshTrainOnlyShared

\* a run with every stage and three encoded columns has returned
C3_Witness ==
    /\ path = "split_and_encode" /\ pc = "done"
    /\ {trace[i].stage : i \in DOMAIN trace} =
           {"split", "outlier filter", "location fit", "location apply",
            "categorical fit", "categorical apply", "scaler fit", "scaler apply",
            "artifact assembly"}
    /\ Len(SelectSeq(trace, IsCategorical)) = 6
    /\ Len(fit_log) = 5

\* the rows of the input frame that are in the training partition now
Survivors == Filter(df_work, [i \in DOMAIN df_work |-> df_work[i]["index"] \in Indexes(X_train)])

HasRun(name) == \E j \in DOMAIN trace : trace[j].stage = name

C7_OutlierStepFrame ==
    [][ (InSplitAndEncode /\ pc = "split" /\ pc' = "filtered"
         /\ config.outlier_enabled /\ config.outlier_method = "iqr") =>
            LET b    == IQRBounds(Column(y_train, "Price"), config.iqr_multiplier)
                m    == config.iqr_multiplier
                kept == {i \in DOMAIN y_train :
                            /\ FracLE(b.lower, <<y_train[i]["Price"], 1>>)
                            /\ FracLE(<<y_train[i]["Price"], 1>>, b.upper)}
            IN  /\ b.lower = FracSub(Quantile(Column(y_train, "Price"), 1),
                        FracMul(m, FracSub(Quantile(Column(y_train, "Price"), 3),
                                           Quantile(Column(y_train, "Price"), 1))))
                /\ b.upper = FracAdd(Quantile(Column(y_train, "Price"), 3),
                        FracMul(m, FracSub(Quantile(Column(y_train, "Price"), 3),
                                           Quantile(Column(y_train, "Price"), 1))))
                /\ Len(X_train') = Cardinality(kept)
                /\ Range(X_train') = {X_train[i] : i \in kept}
                /\ Range(y_train') = {y_train[i] : i \in kept}
                /\ Len(y_train') = Len(X_train')
                /\ \A j \in DOMAIN X_train' :
                      /\ y_train'[j]["index"] = X_train'[j]["index"]
                      /\ y_train'[j]["Price"] = InputRow(X_train'[j]["index"])["Price"]
                /\ X_test' = X_test /\ y_test' = y_test
                /\ Len(X_test') = Len(y_test')
      ]_vars

\* the step has removed a training row
C7_Witness ==
    /\ path = "split_and_encode" /\ pc = "filtered"
    /\ HasRun("outlier filter")
    /\ Len(X_train) + Len(X_test) < Len(df_work)
    /\ Len(X_train) = Len(y_train)

\* C5: the rare categories of tree_optimized_pipeline depend on the
\* training rows only: a second run whose input differs only in rows of the
\* test partition classifies the same categories as rare.
C5_RareFromTrainOnly ==
    (/\ path = "tree_optimized_pipeline" /\ SplitDone
     /\ {df_basic[i]["index"] : i \in {k \in DOMAIN df_basic : df_basic[k] # df_basic2[k]}}
            \subseteq Indexes(X_test))
        => rare = rare2

(***************************************************************************)
(* One-hot encoding (pandas.get_dummies): the indicator column of the      *)
(* value v of the column c is named c_v; a cell is 1 or 0.                 *)
(***************************************************************************)
\* the columns of the model that read_csv loads with dtype object
StringColumns ==
    { "Address", "new_city", "new_district", "new_street_ward", "House direction",
      "Balcony direction", "Legal status", "Furniture state", "Area_binned",
      "price_segment" }

\* X.select_dtypes(include=[np.number]).columns
NumericCols(t) == Columns(t) \ StringColumns

\* the (column, value) pairs of the indicator columns: the columns in the
\* order given, the values of each in sorted order
RECURSIVE OneHotPairs(_, _)
OneHotPairs(t, cols) ==
    IF cols = <<>> THEN <<>>
    ELSE LET values == SortedSeq(Range(Column(t, Head(cols))))
         IN  [k \in DOMAIN values |-> <<Head(cols), values[k]>>]
                 \o OneHotPairs(t, Tail(cols))

\* prefix + "_" + value
DummyName(pair) == pair[1] \o "_" \o pair[2]

\* pd.get_dummies(t[cols], prefix=cols)
get_dummies(t, cols) ==
    LET pairs == OneHotPairs(t, cols)
        names == [k \in DOMAIN pairs |-> DummyName(pairs[k])]
        of(n) == pairs[CHOOSE k \in DOMAIN pairs : names[k] = n]
    IN  [ columns |-> names,
          index   |-> Column(t, "index"),
          rows    |-> [i \in DOMAIN t |->
                         [n \in Range(names) |->
                             IF t[i][of(n)[1]] = of(n)[2] THEN 1 ELSE 0]] ]

\* a test block left with its own columns
ReindexKeep(ohe, columns, fill) == ohe

\* ohe.reindex(columns=columns, fill_value=fill)
Reindex(ohe, columns, fill) ==
    [ columns |-> columns,
      index   |-> ohe.index,
      rows    |-> [i \in DOMAIN ohe.rows |->
                     [n \in Range(columns) |->
                         IF n \in Range(ohe.columns) THEN ohe.rows[i][n] ELSE fill]] ]

\* the numeric columns that are neither label-encoded nor binary
ColsToScale(t, numeric_cols, high_cat) ==
    {c \in numeric_cols : /\ c \notin Range(high_cat)
                          /\ ~(Range(Column(t, c)) \subseteq {0, 1})}

\* a set of column names as a list, in code-point order of the model's
\* choice (the order of the scaled columns does not reach any output)
RECURSIVE SetToSeq(_)
SetToSeq(S) ==
    IF S = {} THEN <<>> ELSE LET x == CHOOSE x \in S : TRUE IN <<x>> \o SetToSeq(S \ {x})

(***************************************************************************)
(* process_with_train_test_split (demo main_preprocessing.py)              *)
(***************************************************************************)
ProcessedFrame ==
    [i \in DOMAIN EnhancedFrame |->
        ("has_frontage" :> i % 2)
        @@ [EnhancedFrame[i] EXCEPT !["Address"] =
                IF i % 2 = 0 THEN "P. Be61n Nghe1" ELSE "Other"]]

ProcessedFrames == { ProcessedFrame, DropColumns(ProcessedFrame, {"Price"}) }

PW_low_cardinality_cats ==
    << "House direction", "Balcony direction", "Legal status", "Area_binned",
       "Furniture state", "new_city" >>
PW_high_cardinality_cats == << "Address", "new_street_ward", "new_district" >>

InitPW ==
    /\ ServeIdle /\ RunEmpty
    /\ path = "process_with_train_test_split" /\ pc = "start"
    /\ config = None /\ test_size \in TestSizes /\ copy_on_write \in BOOLEAN
    /\ df_work \in ProcessedFrames
    /\ df_basic = <<>> /\ df_basic2 = <<>>

\* steps 2 and 3: the Price check and the split
PWSplit ==
    /\ path = "process_with_train_test_split" /\ pc = "start"
    /\ LET n == Len(df_work)
           X == DropColumns(df_work, {"Price"})
           y == TakeColumns(df_work, {"Price"})
       IN  IF PriceMissing(df_work) \/ NTest(n, test_size) = n
           THEN /\ pc' = "raised"
                /\ UNCHANGED <<X_train, y_train, X_test, y_test, fitted, trace>>
           ELSE \E S \in SplitChoices(n, test_size) :
                  /\ X_train' = Filter(X, [i \in 1..n |-> i \notin S])
                  /\ y_train' = Filter(y, [i \in 1..n |-> i \notin S])
                  /\ X_test' = Filter(X, [i \in 1..n |-> i \in S])
                  /\ y_test' = Filter(y, [i \in 1..n |-> i \in S])
                  /\ fitted' = NoArtifacts
                  /\ trace' = <<Stage("split", "", 0)>>
                  /\ pc' = "split"
    /\ UNCHANGED <<fit_log, X_test2, fitted2>>
    /\ UNCHANGED frameVars /\ UNCHANGED inputVars /\ UNCHANGED serveVars

PWHighCat == ExistingColumns(PW_high_cardinality_cats, X_train)
PWLowCat == ExistingColumns(PW_low_cardinality_cats, X_train)

\* step 5, one iteration of the loop: fit on the train column, then the
\* test column with unknown values as -1
PWLabelEncode ==
    /\ path = "process_with_train_test_split" /\ pc = "split"
    /\ EncodersFitted < Len(PWHighCat)
    /\ LET col     == PWHighCat[EncodersFitted + 1]
           classes == LabelEncoderFit(Column(EncoderFitRows(X_train, X_test), col))
           e       == FitEntry("label_encoder", col, EncoderFitRows(X_train, X_test))
       IN  /\ X_train' = SetColumn(X_train, col,
                  [i \in DOMAIN X_train |-> LabelEncoderTransform(classes, X_train[i][col])])
           /\ X_test' = EncodeTest(X_test, col, classes)
           /\ fitted' = [fitted EXCEPT !.label_encoders = (col :> classes) @@ @,
                                       !.ids = (col :> e.obj) @@ @]
           /\ fit_log' = Append(fit_log, e)
           /\ trace' = trace \o << Stage("categorical fit", col, e.obj),
                                   Stage("categorical apply", col, e.obj) >>
    /\ pc' = "split"
    /\ UNCHANGED <<y_train, y_test, X_test2, fitted2>>
    /\ UNCHANGED frameVars /\ UNCHANGED inputVars /\ UNCHANGED serveVars

\* step 6: the one-hot block of the train table, and the test block
\* reindexed to its columns
PWOneHot ==
    /\ path = "process_with_train_test_split" /\ pc = "split"
    /\ EncodersFitted = Len(PWHighCat)
    /\ LET X_train_ohe == get_dummies(X_train, PWLowCat)
           X_test_ohe  == Reindex(get_dummies(X_test, PWLowCat), X_train_ohe.columns, 0)
           e           == FitEntry("one_hot", "", X_train)
       IN  /\ fitted' = [X_train_ohe |-> X_train_ohe, X_test_ohe |-> X_test_ohe]
                            @@ [fitted EXCEPT !.ids = ("one_hot" :> e.obj) @@ @]
           /\ fit_log' = Append(fit_log, e)
           /\ trace' = Append(trace, Stage("one-hot", "", e.obj))
    /\ pc' = "onehot"
    /\ UNCHANGED <<X_train, y_train, X_test, y_test, X_test2, fitted2>>
    /\ UNCHANGED frameVars /\ UNCHANGED inputVars /\ UNCHANGED serveVars

\* steps 7 to 9: StandardScaler fitted on the continuous numeric columns of
\* the train table and applied to both tables; fit_transform of a frame
\* with no column raises
PWScale ==
    /\ path = "process_with_train_test_split" /\ pc = "onehot"
    /\ LET numeric_cols  == NumericCols(DropColumns(df_work, {"Price"}))
           cols_to_scale == SetToSeq(ColsToScale(X_train, numeric_cols, PWHighCat))
           scaler        == StandardScalerFit(ScalerFitRows(X_train, X_test), cols_to_scale)
           e             == FitEntry("scaler", "", ScalerFitRows(X_train, X_test))
       IN  IF cols_to_scale = <<>>
           THEN /\ pc' = "raised"
                /\ UNCHANGED <<X_train, X_test, fitted, fit_log, trace>>
           ELSE /\ X_train' = StandardScalerTransform(scaler, X_train)
                /\ X_test' = StandardScalerTransform(scaler, X_test)
                /\ fitted' = [fitted EXCEPT !.scaler = scaler,
                                            !.ids = ("scaler" :> e.obj) @@ @]
                /\ fit_log' = Append(fit_log, e)
                /\ trace' = trace \o << Stage("scaler fit", "", e.obj),
                                        Stage("scaler apply", "", e.obj) >>
                /\ pc' = "scaled"
    /\ UNCHANGED <<y_train, y_test, X_test2, fitted2>>
    /\ UNCHANGED frameVars /\ UNCHANGED inputVars /\ UNCHANGED serveVars

\* pd.concat([ohe, remaining], axis=1): the one-hot block, then the other
\* columns, row by row
Concat(ohe, remaining) ==
    [i \in DOMAIN remaining |-> ohe.rows[i] @@ remaining[i]]

\* steps 10 to 12: the final tables with Price, the four files written
PWSave ==
    /\ path = "process_with_train_test_split" /\ pc = "scaled"
    /\ LET low == Range(PWLowCat)
       IN  fitted' =
             [ train_df |-> WithPrice(Concat(fitted.X_train_ohe,
                                             DropColumns(X_train, low)), y_train),
               test_df  |-> WithPrice(Concat(fitted.X_test_ohe,
                                             DropColumns(X_test, low)), y_test),
               saved    |-> {"train_final.csv", "test_final.csv", "scaler.pkl",
                             "label_encoders.pkl"} ] @@ fitted
    /\ pc' = "done"
    /\ UNCHANGED <<X_train, y_train, X_test, y_test, X_test2, fitted2, fit_log, trace>>
    /\ UNCHANGED frameVars /\ UNCHANGED inputVars /\ UNCHANGED serveVars

(***************************************************************************)
(* process_one_hot_and_scale (backend main_preprocessing.py) over the      *)
(* functions of one_hot_encoding_and_scaler.py.  The table is never split: *)
(* df_work is the table as it goes through the steps.                      *)
(***************************************************************************)
PO_low_cat ==
    << "House direction", "Balcony direction", "Legal status", "Area_binned",
       "price_segment", "new_district" >>
PO_high_cat == << "Address", "new_street_ward" >>

\* vietnam_housing_processed.csv
CsvFrame ==
    [i \in DOMAIN ProcessedFrame |->
           "Balcony direction" :> (IF i = 3 THEN "Nam" ELSE "Unknown")
        @@ "Legal status" :> (IF i < 3 THEN "Have certificate" ELSE "Unknown")
        @@ "Area_binned" :> (IF ProcessedFrame[i]["Area"] < 100 THEN "Small" ELSE "Large")
        @@ "price_segment" :> (IF ProcessedFrame[i]["Price"] < 50 THEN "Low" ELSE "High")
        @@ "new_street_ward" :> (IF i < 3 THEN "P. Be61n Nghe1" ELSE "Other")
        @@ ProcessedFrame[i]]

CsvFrames == { CsvFrame, ProcessedFrame }

InitPO ==
    /\ ServeIdle /\ RunEmpty
    /\ path = "process_one_hot_and_scale" /\ pc = "start"
    /\ config = None /\ test_size = <<1, 5>> /\ copy_on_write \in BOOLEAN
    /\ df_work \in CsvFrames
    /\ df_basic = <<>> /\ df_basic2 = <<>>

\* steps 1 to 3: load, analyze_columns, apply_label_encoding; df[col] of a
\* column the table lacks raises KeyError
POLabelEncode ==
    /\ path = "process_one_hot_and_scale" /\ pc = "start"
    /\ IF ~(Range(PO_high_cat) \subseteq Columns(df_work))
       THEN /\ pc' = "raised"
            /\ UNCHANGED <<df_work, fitted, fit_log, trace>>
       ELSE LET encode[k \in 0..Len(PO_high_cat)] ==
                    IF k = 0 THEN df_work
                    ELSE LET col     == PO_high_cat[k]
                             classes == LabelEncoderFit(Column(df_work, col))
                         IN  SetColumn(encode[k - 1], col,
                                 [i \in DOMAIN df_work |->
                                     LabelEncoderTransform(classes, df_work[i][col])])
            IN  /\ df_work' = encode[Len(PO_high_cat)]
                /\ fitted' = NoArtifacts
                /\ fit_log' = [k \in DOMAIN PO_high_cat |->
                                  [FitEntry("label_encoder", PO_high_cat[k], df_work)
                                      EXCEPT !.obj = k]]
                /\ trace' = [k \in DOMAIN PO_high_cat |->
                                  Stage("categorical fit", PO_high_cat[k], k)]
                /\ pc' = "encode"
    /\ UNCHANGED <<X_train, y_train, X_test, y_test, X_test2, fitted2, rare, rare2>>
    /\ UNCHANGED inputVars /\ UNCHANGED serveVars

\* step 4: apply_one_hot on the whole table
POOneHot ==
    /\ path = "process_one_hot_and_scale" /\ pc = "encode"
    /\ IF ~(Range(PO_low_cat) \subseteq Columns(df_work))
       THEN /\ pc' = "raised"
            /\ UNCHANGED <<fitted, fit_log, trace>>
       ELSE LET e == FitEntry("one_hot", "", df_work)
            IN  /\ fitted' = [df_ohe |-> get_dummies(df_work, PO_low_cat)]
                                 @@ [fitted EXCEPT !.ids = ("one_hot" :> e.obj) @@ @]
                /\ fit_log' = Append(fit_log, e)
                /\ trace' = Append(trace, Stage("one-hot", "", e.obj))
                /\ pc' = "onehot"
    /\ UNCHANGED <<X_train, y_train, X_test, y_test, X_test2, fitted2>>
    /\ UNCHANGED frameVars /\ UNCHANGED inputVars /\ UNCHANGED serveVars

\* steps 5 to 7: select_numeric_for_scaling and scale_numeric_features on
\* the whole table; Price is one of its numeric columns
POScale ==
    /\ path = "process_one_hot_and_scale" /\ pc = "onehot"
    /\ LET df_remaining  == DropColumns(df_work, Range(PO_low_cat))
           cols_to_scale == SetToSeq(ColsToScale(df_remaining, NumericCols(df_work),
                                                 PO_high_cat))
           scaler        == StandardScalerFit(df_remaining, cols_to_scale)
           e             == FitEntry("scaler", "", df_remaining)
       IN  /\ df_work' = StandardScalerTransform(scaler, df_remaining)
           /\ fitted' = [fitted EXCEPT !.scaler = scaler,
                                       !.ids = ("scaler" :> e.obj) @@ @]
           /\ fit_log' = Append(fit_log, e)
           /\ trace' = trace \o << Stage("scaler fit", "", e.obj),
                                   Stage("scaler apply", "", e.obj) >>
    /\ pc' = "scaled"
    /\ UNCHANGED <<X_train, y_train, X_test, y_test, X_test2, fitted2, rare, rare2>>
    /\ UNCHANGED inputVars /\ UNCHANGED serveVars

\* steps 8 and 9: combine_processed and save_dataset
POSave ==
    /\ path = "process_one_hot_and_scale" /\ pc = "scaled"
    /\ fitted' = [ df_final |-> Concat(fitted.df_ohe, df_work),
                   saved    |-> {"final_preprocessed_dataset.csv"} ] @@ fitted
    /\ pc' = "done"
    /\ UNCHANGED <<X_train, y_train, X_test, y_test, X_test2, fitted2, fit_log, trace>>
    /\ UNCHANGED frameVars /\ UNCHANGED inputVars /\ UNCHANGED serveVars

(***************************************************************************)
(* MLPipeline.run_pipeline (backend pipeline.py): load_data with           *)
(* _preprocess_features, split_data, then the training of the models.  The *)
(* tables of the model have no missing cell.                               *)
(***************************************************************************)
MLConfigs ==
    [ target_column : {"Price", "price"}, skip_preprocessing : BOOLEAN,
      use_log_transform : BOOLEAN ]

InitML ==
    /\ ServeIdle /\ RunEmpty
    /\ path = "run_pipeline" /\ pc = "start"
    /\ config \in MLConfigs /\ test_size \in TestSizes /\ copy_on_write = FALSE
    /\ df_work = ProcessedFrame
    /\ df_basic = <<>> /\ df_basic2 = <<>>

\* the object columns of X after the drop of Address, in column order
MLCategoricalCols(X) ==
    ExistingColumns(<< "new_district", "new_city", "House direction" >>, X)

\* _preprocess_features: one LabelEncoder per object column, fitted on the
\* column of the whole table
MLPreprocessFeatures(X0) ==
    LET X    == DropColumns(X0, {"Address"})
        cols == MLCategoricalCols(X)
        encode[k \in 0..Len(cols)] ==
            IF k = 0 THEN X
            ELSE LET classes == LabelEncoderFit(Column(X, cols[k]))
                 IN  SetColumn(encode[k - 1], cols[k],
                         [i \in DOMAIN X |-> LabelEncoderTransform(classes, X[i][cols[k]])])
    IN  [ X   |-> encode[Len(cols)],
          log |-> [k \in DOMAIN cols |->
                      [kind |-> "label_encoder", column |-> cols[k], saw |-> Indexes(X),
                       split_done |-> FALSE, obj |-> k]] ]

\* pd.to_numeric(X[col], errors='coerce').fillna(0).astype(int) on every
\* non-numeric column: the strings of the model are not numerals
MLCoerce(X) ==
    [i \in DOMAIN X |->
        [c \in DOMAIN X[i] |-> IF c \in StringColumns THEN 0 ELSE X[i][c]]]

\* np.log1p(y), kept symbolic
Log1p(y) == [i \in DOMAIN y |-> [y[i] EXCEPT !["Price"] = <<"log1p", @>>]]

\* load_data; the tables X and y are kept in X_train and y_train until
\* split_data
MLLoadData ==
    /\ path = "run_pipeline" /\ pc = "start"
    /\ IF config.target_column \notin Columns(df_work)
       THEN /\ pc' = "raised"
            /\ UNCHANGED <<X_train, y_train, fitted, fit_log, trace>>
       ELSE LET X == DropColumns(df_work, {config.target_column})
                y == TakeColumns(df_work, {config.target_column})
                r == MLPreprocessFeatures(X)
            IN  /\ IF config.skip_preprocessing
                   THEN /\ X_train' = MLCoerce(X)
                        /\ fit_log' = <<>>
                   ELSE /\ X_train' = r.X
                        /\ fit_log' = r.log
                /\ y_train' = IF config.use_log_transform THEN Log1p(y) ELSE y
                /\ fitted' = NoArtifacts
                /\ trace' = <<Stage("load_data", "", 0)>>
                /\ pc' = "loaded"
    /\ UNCHANGED <<X_test, y_test, X_test2, fitted2>>
    /\ UNCHANGED frameVars /\ UNCHANGED inputVars /\ UNCHANGED serveVars

\* split_data
MLSplitData ==
    /\ path = "run_pipeline" /\ pc = "loaded"
    /\ LET n == Len(X_train)
       IN  \E S \in SplitChoices(n, test_size) :
             /\ X_train' = Filter(X_train, [i \in 1..n |-> i \notin S])
             /\ y_train' = Filter(y_train, [i \in 1..n |-> i \notin S])
             /\ X_test' = Filter(X_train, [i \in 1..n |-> i \in S])
             /\ y_test' = Filter(y_train, [i \in 1..n |-> i \in S])
    /\ trace' = Append(trace, Stage("split", "", 0))
    /\ pc' = "split"
    /\ UNCHANGED <<fitted, fit_log, X_test2, fitted2>>
    /\ UNCHANGED frameVars /\ UNCHANGED inputVars /\ UNCHANGED serveVars

\* initialize_models, train_all_models and the saves: the models see the
\* training partition
MLTrainAllModels ==
    /\ path = "run_pipeline" /\ pc = "split"
    /\ fitted' = [trained_on |-> Indexes(X_train)] @@ fitted
    /\ trace' = Append(trace, Stage("train", "", 0))
    /\ pc' = "done"
    /\ UNCHANGED <<X_train, y_train, X_test, y_test, X_test2, fitted2, fit_log>>
    /\ UNCHANGED frameVars /\ UNCHANGED inputVars /\ UNCHANGED serveVars

NextBatch ==
    \/ EnhancedPreprocessing \/ Split \/ OutlierFilter \/ LocationFit \/ LocationApply
    \/ EncoderFit \/ EncoderApply \/ ScalerFit \/ ScalerApply \/ Assemble \/ SaveOutputs
    \/ PWSplit \/ PWLabelEncode \/ PWOneHot \/ PWScale \/ PWSave
    \/ POLabelEncode \/ POOneHot \/ POScale \/ POSave
    \/ MLLoadData \/ MLSplitData \/ MLTrainAllModels

SpecBatch ==
    (InitSplit \/ InitPipeline \/ InitPW \/ InitPO \/ InitML) /\ [][NextBatch]_vars

(***************************************************************************)
(* Claims about every batch path                                           *)
(***************************************************************************)
\* C4 as stated: in every batch path each label encoder, one-hot vocabulary
\* and scaler is fitted exactly once, after the train/test split, and sees
\* rows of the training partition only.
C4_FitOnceAfterSplitTrainOnly ==
    \A i \in DOMAIN fit_log :
        /\ fit_log[i].split_done
        /\ fit_log[i].saw \cap Indexes(X_test) = {}
        /\ \A j \in DOMAIN fit_log :
              (fit_log[j].kind = fit_log[i].kind /\ fit_log[j].column = fit_log[i].column)
                  => j = i

LabelEncodingPaths ==
    {"split_and_encode", "tree_optimized_pipeline", "process_with_train_test_split"}

HasApplied(col) ==
    \E j \in DOMAIN trace :
        trace[j].stage = "categorical apply" /\ trace[j].column = col

\* C10: in split_and_encode and process_with_train_test_split, once a
\* column is label-encoded the stored classes are exactly the distinct
\* training values, every training value is replaced by its index among the
\* sorted distinct training strings (in 0..n-1), every test value that
\* occurs in the training partition by that same index, and every other
\* test value by -1.
C10_LabelCodeIsSortedIndex ==
    (path \in LabelEncodingPaths /\ ~IsNone(fitted)) =>
        \A col \in DOMAIN fitted.label_encoders :
            LET classes   == fitted.label_encoders[col]
                orig(r)   == InputRow(r["index"])[col]
                trainVals == {orig(X_train[i]) : i \in DOMAIN X_train}
                n         == Cardinality(trainVals)
                code(v)   == Cardinality({c \in trainVals : Rank(c) < Rank(v)})
            IN  /\ Range(classes) = trainVals
                /\ Len(classes) = n
                /\ \A i \in DOMAIN X_train :
                      /\ X_train[i][col] = code(orig(X_train[i]))
                      /\ X_train[i][col] \in 0..(n - 1)
                /\ HasApplied(col) =>
                      \A i \in DOMAIN X_test :
                          X_test[i][col] = IF orig(X_test[i]) \in trainVals
                                           THEN code(orig(X_test[i])) ELSE -1

\* process_with_train_test_split has returned; a test value unseen in
\* training and a test value seen in training were encoded
C10_Witness ==
    /\ path = "process_with_train_test_split" /\ pc = "done"
    /\ \E col \in DOMAIN fitted.label_encoders :
          \E i \in DOMAIN X_test : X_test[i][col] = -1
    /\ \E col \in DOMAIN fitted.label_encoders :
          \E i \in DOMAIN X_test : X_test[i][col] >= 1

\* the values of a column of the training partition, of the test partition
TrainValues(col) == Range(Column(X_train, col))
TestValues(col) == Range(Column(X_test, col))

OneHotDone ==
    /\ path = "process_with_train_test_split"
    /\ ~IsNone(fitted) /\ "X_train_ohe" \in DOMAIN fitted

\* C11: in process_with_train_test_split the one-hot block of the test table
\* has exactly the indicator columns of the training block in the same
\* order: there is one indicator per training category and none for a
\* category of test rows only, and a test row has 1 in the indicator of its
\* own category and 0 in every other (so 0 everywhere in a column whose test
\* value was not seen in training, and 0 in every row for a training
\* category no test row has).
C11_TestOneHotAligned ==
    OneHotDone =>
        LET train == fitted.X_train_ohe
            test  == fitted.X_test_ohe
        IN  /\ test.columns = train.columns
            /\ Range(train.columns) =
                   UNION {{DummyName(<<PWLowCat[k], v>>) : v \in TrainValues(PWLowCat[k])} :
                             k \in DOMAIN PWLowCat}
            /\ \A k \in DOMAIN PWLowCat :
                  \A v \in TestValues(PWLowCat[k]) \ TrainValues(PWLowCat[k]) :
                      DummyName(<<PWLowCat[k], v>>) \notin Range(test.columns)
            /\ Len(test.rows) = Len(X_test)
            /\ \A i \in DOMAIN X_test :
                  /\ DOMAIN test.rows[i] = Range(train.columns)
                  /\ \A k \in DOMAIN PWLowCat :
                        \A v \in TrainValues(PWLowCat[k]) :
                            test.rows[i][DummyName(<<PWLowCat[k], v>>)] =
                                IF X_test[i][PWLowCat[k]] = v THEN 1 ELSE 0

\* the function has returned; a test row has a category no training row
\* has, and a training category is absent from the test rows
C11_Witness ==
    /\ OneHotDone /\ pc = "done"
    /\ \E k \in DOMAIN PWLowCat :
          /\ TestValues(PWLowCat[k]) \ TrainValues(PWLowCat[k]) # {}
          /\ TrainValues(PWLowCat[k]) \ TestValues(PWLowCat[k]) # {}

\* C12: when the input table has no Price column, split_and_encode and
\* process_with_train_test_split raise before any split, outlier filter,
\* fit, encoding or file write: the call is at its start or has raised, and
\* there are no partitions, no fitted object, no stage run and no artifacts.
C12_NoPriceRaisesFirst ==
    (/\ path \in {"split_and_encode", "process_with_train_test_split"}
     /\ "Price" \notin Columns(df_work)) =>
        /\ pc \in {"start", "raised"}
        /\ X_train = <<>> /\ y_train = <<>> /\ X_test = <<>> /\ y_test = <<>>
        /\ fit_log = <<>> /\ trace = <<>>
        /\ IsNone(fitted)

\* split_and_encode has raised on a table that has rows and no Price
C12_Witness ==
    /\ path = "split_and_encode" /\ pc = "raised"
    /\ df_work # <<>> /\ "Price" \notin Columns(df_work)
    /\ "new_district" \in Columns(df_work)

(***************************************************************************)
(* DataPreprocessor (data_preprocessor.py) on raw tables.  A cell of a raw *)
(* table is <<v>>, or NaN when the value is missing.  The numbers of a     *)
(* column of the raw tables have one parity, so the median of two of them  *)
(* is whole.                                                               *)
(***************************************************************************)
isna(cell) == cell = NaN

\* the values of the cells that are not missing, in row order
Present(cells) == SelectSeq(cells, LAMBDA c : c # NaN)

HasMissing(t, col) == \E i \in DOMAIN t : isna(t[i][col])

\* Series.median() of a column of numbers (NaN when no cell has a value)
MedianCell(cells) ==
    LET xs == SortNums([k \in DOMAIN Present(cells) |-> Present(cells)[k][1]])
        n  == Len(xs)
    IN  IF n = 0 THEN NaN
        ELSE IF n % 2 = 1 THEN <<xs[(n + 1) \div 2]>>
        ELSE <<(xs[n \div 2] + xs[n \div 2 + 1]) \div 2>>

\* Series.mode(): the most frequent values, in sorted order (numbers by
\* value, strings by code point); empty when no cell has a value
ModeValues(cells, isString) ==
    LET vals     == {Present(cells)[k][1] : k \in DOMAIN Present(cells)}
        count(v) == Cardinality({k \in DOMAIN cells : cells[k] = <<v>>})
        top      == {v \in vals : \A w \in vals : count(w) <= count(v)}
    IN  IF isString THEN SortedSeq(top)
        ELSE SortNums(SetToSeq(top))

\* column.fillna(value) as a new column
Fillna(cells, cell) == [k \in DOMAIN cells |-> IF isna(cells[k]) THEN cell ELSE cells[k]]

\* self.df[column].fillna(value, inplace=True): the fill reaches the table
\* only when the selected column is not a copy
InplaceFillna(t, col, cell, cow) ==
    IF cow THEN t ELSE SetColumn(t, col, Fillna(Column(t, col), cell))

\* DataPreprocessor.add_binary_flag
add_binary_flag(t, col, flag_name) ==
    IF col \notin Columns(t) THEN t
    ELSE [i \in DOMAIN t |->
             (flag_name :> <<IF isna(t[i][col]) THEN 0 ELSE 1>>) @@ t[i]]

\* DataPreprocessor.fill_value
fill_value(t, col, value, cow) ==
    IF col \notin Columns(t) \/ ~HasMissing(t, col) THEN t
    ELSE InplaceFillna(t, col, <<value>>, cow)

\* groupby(group_by)[column].transform(f): a row whose key is missing is in
\* no group and gets NaN
GroupTransform(t, col, group_by, f(_)) ==
    SetColumn(t, col,
        [i \in DOMAIN t |->
            IF isna(t[i][group_by]) THEN NaN
            ELSE LET group == Filter(Column(t, col),
                                  [k \in DOMAIN t |-> t[k][group_by] = t[i][group_by]])
                 IN  IF isna(t[i][col]) THEN f(group) ELSE t[i][col]])

\* DataPreprocessor.fill_median
fill_median(t, col, group_by, cow) ==
    IF col \notin Columns(t) \/ ~HasMissing(t, col) THEN t
    ELSE IF group_by # "" /\ group_by \in Columns(t)
         THEN LET f(group) == IF Present(group) # <<>> THEN MedianCell(group)
                              ELSE MedianCell(Column(t, col))
              IN  GroupTransform(t, col, group_by, f)
         ELSE InplaceFillna(t, col, MedianCell(Column(t, col)), cow)

\* DataPreprocessor.fill_mode without group_by
fill_mode(t, col, cow) ==
    IF col \notin Columns(t) \/ ~HasMissing(t, col) THEN t
    ELSE IF Present(Column(t, col)) # <<>>
         THEN InplaceFillna(t, col, <<ModeValues(Column(t, col), FALSE)[1]>>, cow)
         ELSE t

\* _parse_location on an address given as its comma-separated parts
ParseLocation(cell) ==
    LET parts == IF isna(cell) THEN <<>> ELSE cell[1]
        n     == Len(parts)
    IN  IF n >= 2 THEN [city |-> parts[n], district |-> parts[n - 1],
                        street_ward |-> IF n >= 3 THEN parts[1] ELSE "Unknown"]
        ELSE IF n = 1 THEN [city |-> parts[1], district |-> "Unknown",
                            street_ward |-> "Unknown"]
        ELSE [city |-> "Unknown", district |-> "Unknown", street_ward |-> "Unknown"]

\* DataPreprocessor.extract_from_address
extract_from_address(t, address_column) ==
    IF address_column \notin Columns(t) THEN t
    ELSE [i \in DOMAIN t |->
             LET loc == ParseLocation(t[i][address_column])
             IN  ("new_city" :> <<loc.city>>) @@ ("new_district" :> <<loc.district>>)
                 @@ ("new_street_ward" :> <<loc.street_ward>>) @@ t[i]]

\* DataPreprocessor.create_feature with a function of one row
create_feature(t, name, f(_)) == [i \in DOMAIN t |-> (name :> f(t[i])) @@ t[i]]

\* df[a] / df[b].replace(0, 1)
RatioCell(a, b) ==
    IF isna(a) \/ isna(b) THEN NaN ELSE <<Div(a[1], Replace0By1(b[1]))>>

\* (df[col] > k).astype(int), (df[col] >= k).astype(int): a missing value
\* compares False
GreaterFlag(cell, k) == <<IF ~isna(cell) /\ cell[1] > k THEN 1 ELSE 0>>

\* DataPreprocessor.create_bins("Area", n_bins=5, labels): pd.cut fails on a
\* column with no value and the column is then not created
create_bins(t, col) ==
    IF col \notin Columns(t) \/ Present(Column(t, col)) = <<>> THEN t
    ELSE LET xs == SortNums([k \in DOMAIN Present(Column(t, col)) |->
                                Present(Column(t, col))[k][1]])
         IN  [i \in DOMAIN t |->
                 ("Area_binned" :> IF isna(t[i][col]) THEN NaN
                                   ELSE <<AreaBinLabel(t[i][col][1], xs[1], xs[Len(xs)])>>)
                 @@ t[i]]

\* the loop "for city in df['new_city'].unique()": the missing cells of a
\* city get the mode of the city's values, when it has one
FillByCityMode(t, col) ==
    SetColumn(t, col,
        [i \in DOMAIN t |->
            LET city == Filter(Column(t, col),
                            [k \in DOMAIN t |-> t[k]["new_city"] = t[i]["new_city"]])
                mode == ModeValues(city, TRUE)
            IN  IF isna(t[i][col]) /\ mode # <<>> THEN <<mode[1]>> ELSE t[i][col]])

\* the numeric columns of a raw table
NumericRawCols ==
    { "Area", "Bedrooms", "Bathrooms", "Floors", "Access Road", "Frontage", "Price" }

\* "for col in numeric_cols: if df[col].isna().sum() > 0: prep.fill_median(col)"
RECURSIVE FillRemainingNumeric(_, _, _)
FillRemainingNumeric(t, cols, cow) ==
    IF cols = {} THEN t
    ELSE LET c == CHOOSE c \in cols : TRUE
         IN  FillRemainingNumeric(fill_median(t, c, "", cow), cols \ {c}, cow)

\* phase 3, Bathrooms: Bedrooms by its median, then Bathrooms by the median
\* of the rows with the same Bedrooms
FillBathrooms(t, cow) ==
    IF "Bathrooms" \in Columns(t) /\ "Bedrooms" \in Columns(t)
    THEN fill_median(fill_median(t, "Bedrooms", "", cow), "Bathrooms", "Bedrooms", cow)
    ELSE fill_median(t, "Bathrooms", "", cow)

\* phase 4 of basic_preprocessing, and step 7 of preprocess_vietnam_housing
\* where avg_room_size is guarded by a column "total_rooms" no table has
FeatureEngineering(t, roomsColumn) ==
    LET t1 == IF "Bathrooms" \in Columns(t) /\ "Bedrooms" \in Columns(t)
              THEN create_feature(
                     create_feature(t, "new_bathroom_bedroom_ratio",
                         LAMBDA r : RatioCell(r["Bathrooms"], r["Bedrooms"])),
                     "new_total_rooms",
                     LAMBDA r : IF isna(r["Bedrooms"]) \/ isna(r["Bathrooms"]) THEN NaN
                                ELSE <<r["Bedrooms"][1] + r["Bathrooms"][1]>>)
              ELSE t
        t2 == IF "Area" \in Columns(t1)
              THEN LET a == create_feature(t1, "new_is_large_house",
                                LAMBDA r : GreaterFlag(r["Area"], 140))
                   IN  IF roomsColumn \in Columns(a)
                       THEN create_feature(a, "new_avg_room_size",
                                LAMBDA r : RatioCell(r["Area"], r[roomsColumn]))
                       ELSE a
              ELSE t1
        t3 == IF "Bathrooms" \in Columns(t2)
              THEN create_feature(t2, "new_is_luxury",
                       LAMBDA r : GreaterFlag(r["Bathrooms"], 3))
              ELSE t2
    IN  IF "Floors" \in Columns(t3)
        THEN create_feature(t3, "new_is_multi_story", LAMBDA r : GreaterFlag(r["Floors"], 2))
        ELSE t3

\* the imputation of a text column by city, then by a fallback value when
\* there is one: df_copy[col].fillna(fallback, inplace=True)
FillByCityThen(t, col, fallback, cow) ==
    LET df_copy == FillByCityMode(t, col)
    IN  IF HasMissing(df_copy, col) /\ fallback # <<>>
        THEN InplaceFillna(df_copy, col, <<fallback[1]>>, cow)
        ELSE df_copy

\* basic_preprocessing(df) of tree_optimized_preprocessing.py
basic_preprocessing(t, cow) ==
    LET p1 == fill_value(add_binary_flag(t, "Balcony direction", "new_has_balcony_direction"),
                         "Balcony direction", "Unknown", cow)
        p2 == fill_value(add_binary_flag(p1, "House direction", "new_has_house_direction"),
                         "House direction", "Kho6ng ro4", cow)
        p3 == IF "new_city" \notin Columns(p2) THEN extract_from_address(p2, "Address") ELSE p2
        p4 == FillByCityThen(p3, "Furniture state",
                  ModeValues(Column(FillByCityMode(p3, "Furniture state"), "Furniture state"),
                             TRUE), cow)
        p5 == fill_value(add_binary_flag(p4, "Access Road", "new_has_access_road"),
                         "Access Road", 0, cow)
        p6 == fill_value(add_binary_flag(p5, "Frontage", "has_frontage"), "Frontage", 0, cow)
        p7 == FillBathrooms(p6, cow)
        p8 == IF "Legal status" \in Columns(p7)
              THEN FillByCityThen(p7, "Legal status", <<"Kho6ng ro4">>, cow)
              ELSE p7
        p9 == fill_mode(p8, "Floors", cow)
        p10 == FillRemainingNumeric(p9, NumericRawCols \cap Columns(p9), cow)
    IN  create_bins(FeatureEngineering(p10, "new_total_rooms"), "Area")

\* the share of missing cells of a column is above 0.7
HighMissing(t, col) ==
    /\ col \in Columns(t)
    /\ 10 * Cardinality({i \in DOMAIN t : isna(t[i][col])}) > 7 * Len(t)

\* preprocess_vietnam_housing of main_preprocessing.py: the table returned
preprocess_vietnam_housing(t, cow) ==
    LET p1 == IF HighMissing(t, "Balcony direction")
              THEN fill_value(add_binary_flag(t, "Balcony direction",
                                              "new_has_balcony_direction"),
                              "Balcony direction", "Unknown", cow)
              ELSE t
        p2 == IF HighMissing(t, "House direction")
              THEN fill_value(add_binary_flag(p1, "House direction",
                                              "new_has_house_direction"),
                              "House direction", "Kho6ng ro4", cow)
              ELSE p1
        p3 == fill_value(p2, "Furniture state", "Kho6ng ro4", cow)
        p4 == fill_value(add_binary_flag(p3, "Access Road", "new_has_access_road"),
                         "Access Road", 0, cow)
        p5 == fill_value(add_binary_flag(p4, "Frontage", "has_frontage"), "Frontage", 0, cow)
        p6 == FillBathrooms(p5, cow)
        p7 == fill_value(p6, "Legal status", "Kho6ng ro4", cow)
        p8 == fill_mode(p7, "Floors", cow)
        p9 == FillRemainingNumeric(p8, NumericRawCols \cap Columns(t), cow)
        p10 == extract_from_address(FeatureEngineering(p9, "total_rooms"), "Address")
    IN  create_bins(p10, "Area")

(***************************************************************************)
(* Raw tables with missing cells                                           *)
(***************************************************************************)
RawRows == 3

RawRow(i, area, bed, bath, floors, road, frontage, price, furniture, legal, hdir, district,
       city) ==
       "index" :> i @@ "Area" :> <<area>> @@ "Bedrooms" :> <<bed>> @@ "Bathrooms" :> <<bath>>
    @@ "Floors" :> <<floors>> @@ "Access Road" :> <<road>> @@ "Frontage" :> <<frontage>>
    @@ "Price" :> <<price>> @@ "Furniture state" :> <<furniture>>
    @@ "Legal status" :> <<legal>> @@ "House direction" :> <<hdir>>
    @@ "Balcony direction" :> <<hdir>>
    @@ "Address" :> << <<"P. Be61n Nghe1", district, city>> >>

RawFrame ==
    << RawRow(1, 40, 2, 2, 2, 4, 4, 10, "D9a62y d9u3", "So63 ho62ng", "Nam",
              "Qua65n 1", "Ho62 Chi1 Minh"),
       RawRow(2, 60, 2, 4, 2, 6, 4, 12, "Co7 ba3n", "So63 ho62ng", "Ba81c",
              "Qua65n 7", "Ho62 Chi1 Minh"),
       RawRow(3, 200, 4, 4, 4, 8, 6, 100, "Co7 ba3n", "So63 d9o3", "Ta6y",
              "Other", "Ha2 No65i") >>

\* the columns of the raw data that have missing cells
MissingColumns ==
    { "Balcony direction", "House direction", "Furniture state", "Access Road",
      "Frontage", "Bathrooms", "Bedrooms", "Legal status", "Floors", "Area" }

\* the raw table with the cells of the columns cols missing in the rows S
WithMissing(t, cols, S) ==
    [i \in DOMAIN t |->
        [c \in DOMAIN t[i] |-> IF c \in cols /\ i \in S THEN NaN ELSE t[i][c]]]

\* one column with any pattern of missing cells, and every column with it
RawFrames ==
    {WithMissing(RawFrame, {c}, S) : c \in MissingColumns, S \in SUBSET (1..RawRows)}
        \cup {WithMissing(RawFrame, MissingColumns, S) : S \in SUBSET (1..RawRows)}

InitClean ==
    /\ ServeIdle /\ RunEmpty
    /\ path \in {"basic_preprocessing", "preprocess_vietnam_housing"} /\ pc = "start"
    /\ config = None /\ test_size = <<1, 5>> /\ copy_on_write \in BOOLEAN
    /\ df_work \in RawFrames
    /\ df_basic = <<>> /\ df_basic2 = <<>>

\* a call basic_preprocessing(df): the table returned
BasicPreprocessing ==
    /\ path = "basic_preprocessing" /\ pc = "start"
    /\ fitted' = [df |-> basic_preprocessing(df_work, copy_on_write), saved |-> {}]
    /\ pc' = "done"
    /\ UNCHANGED <<X_train, y_train, X_test, y_test, X_test2, fitted2, fit_log, trace>>
    /\ UNCHANGED frameVars /\ UNCHANGED inputVars /\ UNCHANGED serveVars

\* a call preprocess_vietnam_housing(): the table returned and saved
PreprocessVietnamHousing ==
    /\ path = "preprocess_vietnam_housing" /\ pc = "start"
    /\ fitted' = [df |-> preprocess_vietnam_housing(df_work, copy_on_write),
                  saved |-> {"vietnam_housing_processed.csv",
                             "vietnam_housing_processed_log.txt"}]
    /\ pc' = "done"
    /\ UNCHANGED <<X_train, y_train, X_test, y_test, X_test2, fitted2, fit_log, trace>>
    /\ UNCHANGED frameVars /\ UNCHANGED inputVars /\ UNCHANGED serveVars

NextClean == BasicPreprocessing \/ PreprocessVietnamHousing

SpecClean == InitClean /\ [][NextClean]_vars

\* no cell of the table is missing
NoMissingValue(t) == \A i \in DOMAIN t : \A c \in Columns(t) : ~isna(t[i][c])

CleanDone == path \in {"basic_preprocessing", "preprocess_vietnam_housing"} /\ pc = "done"

\* C13 as stated: for every raw table, whatever the pattern and the share
\* of missing cells in the ten columns, the table preprocess_vietnam_housing
\* returns and the table basic_preprocessing returns have no missing value.
C13_NoMissingAfterCleaning ==
    CleanDone => NoMissingValue(fitted.df)

(***************************************************************************)
(* Claims about the location statistics of the online service              *)
(***************************************************************************)
\* the District of the request in progress ("" when the key is omitted)
RequestDistrict == Get(data, "District", Get(data, "new_district", ""))

DistrictKnown ==
    /\ ~IsNone(data) /\ ~IsNone(result)
    /\ ~IsNone(location_stats)
    /\ RequestDistrict \in Range(location_stats.index)

\* C14 as stated: with the location-stats table of the pipeline loaded and
\* the input's District one of its districts, preprocess outputs that
\* district's area mean, median, std, sample count and tier in the five
\* new_district_* columns.
C14_KnownDistrictGetsItsStats ==
    DistrictKnown =>
        LET row == location_stats.cells[RequestDistrict]
        IN  /\ \A c \in Range(LocationStatColumns) : result.row[c] = row[c]
            /\ result.row["new_district_tier"] =
                   TierOfCell(row["new_district_sample_count"])

\* the request in progress names no district of the loaded table: the key
\* is omitted, the value is not in the table's index, or no table is loaded
DistrictUnknown ==
    /\ ~IsNone(data) /\ ~IsNone(result)
    /\ \/ IsNone(location_stats)
       \/ {"District", "new_district"} \cap DOMAIN data = {}
       \/ RequestDistrict \notin Range(location_stats.index)

\* C15: for an input whose District is omitted, is not a district of the
\* loaded table, or when no table is loaded, preprocess returns its frame
\* with new_district_area_mean 70, median 65, std 30, sample count 100 and
\* tier 2, and the loaded table is still the artifact that was loaded.
C15_UnknownDistrictGetsDefaults ==
    /\ DistrictUnknown =>
          /\ result.columns = EXPECTED_FEATURES
          /\ result.row["new_district_area_mean"] = <<Div(70, 1)>>
          /\ result.row["new_district_area_median"] = <<Div(65, 1)>>
          /\ result.row["new_district_area_std"] = <<Div(30 * 30, 1)>>
          /\ result.row["new_district_sample_count"] = <<Div(100, 1)>>
          /\ result.row["new_district_tier"] = 2
    /\ location_stats \in {None, StatsOf(train_frame)}

\* a request whose District is not in the loaded table has been served
C15_Witness ==
    /\ DistrictUnknown
    /\ ~IsNone(location_stats)
    /\ "District" \in DOMAIN data
    /\ RequestDistrict = "Qua65n 99"

(***************************************************************************)
(* full_preprocess_service.py: the numeric part of                         *)
(* FullPreprocessService.preprocess                                        *)
(***************************************************************************)
\* self.feature_names as loaded from the model metadata (a short schema)
feature_names ==
    << "Area", "new_area_log", "Bedrooms", "Bathrooms", "Floors", "Frontage",
       "Access road width", "House direction_Nam", "has_frontage" >>

numeric_mappings ==
       "Area"       :> <<"Area", "new_area_log">>
    @@ "Bedrooms"   :> <<"Bedrooms">>
    @@ "Bathrooms"  :> <<"Bathrooms">>
    @@ "Floors"     :> <<"Floors">>
    @@ "Frontage"   :> <<"Frontage">>
    @@ "AccessRoad" :> <<"Access road width">>

\* every feature starts at 0.0; a numeric key present in the input writes
\* its value into the features it maps to
FullPreprocessNumeric(names, d) ==
    [f \in Range(names) |->
        LET keys == {k \in DOMAIN numeric_mappings :
                        k \in DOMAIN d /\ f \in Range(numeric_mappings[k])}
        IN  IF keys = {} THEN 0 ELSE d[CHOOSE k \in keys : TRUE]]

\* the column of the 41-feature vector a raw numeric key is written to
TreeFeatureOf(k) == IF k = "AccessRoad" THEN "Access Road" ELSE k

\* C16 as stated: when a raw numeric key (Area, Bedrooms, Bathrooms, Floors,
\* Frontage, AccessRoad) is omitted from the input, the feature it maps to
\* is 0 in the vector of TreePreprocessService.preprocess and in the vector
\* of FullPreprocessService.preprocess.
C16_OmittedNumericIsZero ==
    (~IsNone(data) /\ ~IsNone(result)) =>
        \A k \in NumericKeys :
            (k \notin DOMAIN data /\ TreeFeatureOf(k) \notin DOMAIN data) =>
                /\ result.row[TreeFeatureOf(k)] = 0
                /\ \A f \in Range(numeric_mappings[k]) \cap Range(feature_names) :
                       FullPreprocessNumeric(feature_names, data)[f] = 0

(***************************************************************************)
(* Claims about repeated and concurrent calls of the online service        *)
(***************************************************************************)
\* C17 as stated: the vector preprocess returns depends on nothing but the
\* input mapping and the loaded artifacts: the same call in any process of
\* the service (any string-hash seed of the interpreter) returns the vector
\* this call returned, whether or not label encoders are loaded.
C17_OutputDependsOnInputAndArtifactsOnly ==
    (~IsNone(data) /\ ~IsNone(result)) =>
        \A seed \in 1..NumHashSeeds :
            preprocess(label_encoders, location_stats, seed, data) = result

(***************************************************************************)
(* Several request handlers inside preprocess on the one shared instance   *)
(* of get_preprocess_service, each statement group of preprocess a step    *)
(***************************************************************************)
ConcurrentInputs ==
    { [Profile EXCEPT !["District"] = "Qua65n 99", !["Area"] = 25,
                      !["City"] = "Ha2 No65i"],
      Restrict(Profile, {}) }

\* the keys each statement group of preprocess writes into `processed`
BasicKeys ==
    { "Area", "Frontage", "Access Road", "Floors", "Bedrooms", "Bathrooms",
      "House direction", "Balcony direction", "Legal status", "Furniture state",
      "new_has_balcony_direction", "new_has_house_direction",
      "new_has_access_road", "has_frontage" }
LocationKeys == { "new_city", "new_district", "new_street_ward" }
StatsKeys == Range(LocationStatColumns) \cup {"new_district_tier"}

StageKeys(stage) ==
    CASE stage = "basic"    -> BasicKeys
      [] stage = "location" -> LocationKeys
      [] stage = "stats"    -> StatsKeys
      [] OTHER -> DOMAIN Processed(EmptyDict, None, 1, Profile)
                      \ (BasicKeys \cup LocationKeys \cup StatsKeys)

\* every call would keep `processed` in one dict of the instance
FrameShared(c) == 1

\* `processed = {}` is a local of the call: each call has its own dict
Frame(c) == c

\* the statements of one group, run by call c against the instance's
\* artifacts as they are at that moment
RunStage(c, stage, next) ==
    /\ calls.pc[c] = stage
    /\ calls' = [calls EXCEPT
          !.pc[c] = next,
          !.processed[Frame(c)] =
              Restrict(Processed(label_encoders, location_stats, hash_seed,
                                 calls.data[c]), StageKeys(stage)) @@ @]
    /\ UNCHANGED <<label_encoders, location_stats, train_frame, files, unit, prep, prediction,
                   hash_seed,
                   data, result, called>>
    /\ UNCHANGED batchVars

\* a handler enters preprocess(data)
CallBegin(c) ==
    /\ calls.pc[c] = "idle"
    /\ \E d \in ConcurrentInputs :
          calls' = [calls EXCEPT !.pc[c] = "basic", !.data[c] = d,
                                 !.processed[Frame(c)] = EmptyDict]
    /\ UNCHANGED <<label_encoders, location_stats, train_frame, files, unit, prep, prediction,
                   hash_seed,
                   data, result, called>>
    /\ UNCHANGED batchVars

CallBasic(c)    == RunStage(c, "basic", "location")
CallLocation(c) == RunStage(c, "location", "derived")
CallDerived(c)  == RunStage(c, "derived", "stats")
CallStats(c)    == RunStage(c, "stats", "frame")

\* the loop over EXPECTED_FEATURES, the DataFrame and the return
CallReturn(c) ==
    /\ calls.pc[c] = "frame"
    /\ calls' = [calls EXCEPT
          !.pc[c] = "done",
          !.result[c] = SelectColumns(
                            DataFrameOf(ResultDict(calls.processed[Frame(c)])),
                            EXPECTED_FEATURES)]
    /\ UNCHANGED <<label_encoders, location_stats, train_frame, files, unit, prep, prediction,
                   hash_seed,
                   data, result, called>>
    /\ UNCHANGED batchVars

\* the handler finishes its request
CallEnd(c) ==
    /\ calls.pc[c] = "done"
    /\ calls' = [calls EXCEPT !.pc[c] = "idle", !.data[c] = NoCall,
                               !.result[c] = NoCall]
    /\ UNCHANGED <<label_encoders, location_stats, train_frame, files, unit, prep, prediction,
                   hash_seed,
                   data, result, called>>
    /\ UNCHANGED batchVars

NextConcurrent ==
    \E c \in CallIds :
        \/ CallBegin(c)
        \/ CallBasic(c)
        \/ CallLocation(c)
        \/ CallDerived(c)
        \/ CallStats(c)
        \/ CallReturn(c)
        \/ CallEnd(c)

SpecConcurrent == InitServe /\ [][NextConcurrent]_vars

\* C18: with any number of preprocess calls interleaved on the shared
\* instance, every call returns the vector it returns when run alone, and
\* no step writes label_encoders or location_stats (EXPECTED_FEATURES and the
\* mapping tables are module constants no statement assigns).
C18_ConcurrentCallsIndependent ==
    /\ [](\A c \in CallIds :
            calls.pc[c] = "done" =>
                calls.result[c] = preprocess(label_encoders, location_stats,
                                             hash_seed, calls.data[c]))
    /\ [][/\ label_encoders' = label_encoders
          /\ location_stats' = location_stats]_vars

\* one call holds its vector while another call, with another mapping, is
\* between the location codes and the location statistics
C18_Witness ==
    /\ calls.pc[1] = "done"
    /\ calls.pc[2] \in {"derived", "stats"}
    /\ calls.data[1] # calls.data[2]
    /\ ~IsNone(location_stats)

(***************************************************************************)
(* Claims about the construction of the online service                     *)
(***************************************************************************)
\* the value preprocess hands to _encode_categorical for a location column
LocationValue(d, column) ==
    CASE column = "new_city" ->
             _normalize_city(Get(d, "City", Get(d, "new_city", "Ho62 Chi1 Minh")))
      [] column = "new_district" -> Get(d, "District", Get(d, "new_district", ""))
      [] OTHER -> Get(d, "Ward", Get(d, "new_street_ward", ""))

\* C19: whatever __init__ finds at the two artifact paths, the instance is
\* built; an artifact whose file is missing or does not load is left empty
\* and the other artifact is loaded; every preprocess call returns the 41
\* columns, with the fallback code in the location columns when the encoders
\* are empty and the default location statistics when the table is empty.
C19_MissingArtifactDegrades ==
    /\ label_encoders = IF files.encoders = "ok" THEN EncodersOf(train_frame)
                                                 ELSE EmptyDict
    /\ location_stats = IF files.stats = "ok" THEN StatsOf(train_frame) ELSE None
    /\ (~IsNone(data) /\ ~IsNone(result)) =>
          /\ result.columns = EXPECTED_FEATURES
          /\ Len(result.columns) = NumFeatures
          /\ DOMAIN result.row = Range(EXPECTED_FEATURES)
          /\ files.encoders # "ok" =>
                \A column \in LocationKeys :
                    result.row[column] =
                        IF Truthy(LocationValue(data, column))
                        THEN PyHash(hash_seed, LocationValue(data, column))
                        ELSE 0
          /\ files.stats # "ok" =>
                \A column \in StatsKeys :
                    result.row[column] = DefaultLocationStats[column]

\* a request served by an instance whose encoder file did not load and
\* whose location table did
C19_Witness ==
    /\ files.encoders = "corrupt" /\ files.stats = "ok"
    /\ ~IsNone(data) /\ ~IsNone(result)
    /\ Truthy(LocationValue(data, "new_district"))

(***************************************************************************)
(* tree_model_service.py: TreeModelService.predict.  The fitted models are *)
(* opaque: the record of a call keeps the table handed to model.predict.   *)
(***************************************************************************)
\* self.models after load_models: the model files found in the directory
ModelSets == { {"lightgbm", "xgboost", "random_forest"}, {"xgboost"}, {} }
ModelNames == {"lightgbm", "xgboost", "random_forest"}

rename_map ==
       "Access Road"       :> "Access_Road"
    @@ "House direction"   :> "House_direction"
    @@ "Balcony direction" :> "Balcony_direction"
    @@ "Legal status"      :> "Legal_status"
    @@ "Furniture state"   :> "Furniture_state"

\* features_df.rename(columns=rename_map)
Rename(df, map) ==
    [ columns |-> [i \in DOMAIN df.columns |-> Get(map, df.columns[i], df.columns[i])],
      row     |-> [c \in {Get(map, k, k) : k \in DOMAIN df.row} |->
                      df.row[CHOOSE k \in DOMAIN df.row : Get(map, k, k) = c]] ]

\* a ValueError raised by predict
Raised == [raised |-> TRUE, given |-> None, feature_count |-> 0]

\* predict(features_df, model_name): an unknown model raises; a missing
\* column makes features_df[EXPECTED_FEATURES] raise KeyError, re-raised as
\* ValueError; otherwise the model is given the 41 expected columns selected
\* from the table, in the expected order
predict(models, features_df, model_name) ==
    IF model_name \notin models THEN Raised
    ELSE IF ~(Range(MODEL_EXPECTED_FEATURES) \subseteq Range(features_df.columns))
    THEN Raised
    ELSE LET selected == SelectColumns(features_df, MODEL_EXPECTED_FEATURES)
             given    == IF model_name = "lightgbm"
                         THEN Rename(selected, rename_map) ELSE selected
         IN  [raised |-> FALSE, given |-> given,
              feature_count |-> Len(given.columns)]

\* column lists handed to predict: the expected list, the list with two
\* neighbours exchanged, with one name left out, with one name replaced,
\* and with one more column at the end
Swapped(names, i) ==
    [k \in DOMAIN names |-> IF k = i THEN names[i + 1]
                            ELSE IF k = i + 1 THEN names[i] ELSE names[k]]
Without(names, i) == SubSeq(names, 1, i - 1) \o SubSeq(names, i + 1, Len(names))

ColumnLists ==
    {MODEL_EXPECTED_FEATURES, Append(MODEL_EXPECTED_FEATURES, "Price")}
    \cup {Swapped(MODEL_EXPECTED_FEATURES, i) : i \in 1..(Len(MODEL_EXPECTED_FEATURES) - 1)}
    \cup {Without(MODEL_EXPECTED_FEATURES, i) : i \in DOMAIN MODEL_EXPECTED_FEATURES}
    \cup {[MODEL_EXPECTED_FEATURES EXCEPT ![i] = "Price"] : i \in {1, NumFeatures}}

\* a one-row table with those columns, its values taken from a preprocessed
\* request (0 in a column preprocess does not produce)
FeatureTable(names, d) ==
    [ columns |-> names,
      row     |-> [c \in Range(names) |->
                      Get(preprocess(EmptyDict, None, 1, d).row, c, 0)] ]

FeatureTables == { FeatureTable(names, Profile) : names \in ColumnLists }

InitPredict ==
    /\ label_encoders = EmptyDict /\ location_stats = None /\ train_frame = None
    /\ files = None /\ hash_seed = 1
    /\ data = NoCall /\ result = NoCall /\ called = FALSE /\ calls = IdleCalls
    /\ unit = NoCall /\ prep = NoCall
    /\ BatchIdle
    /\ prediction \in [ models : ModelSets, features : {NoCall},
                        model_name : {""}, outcome : {NoCall} ]

\* a caller hands a feature table and a model name to predict
Predict ==
    /\ IsNone(prediction.features)
    /\ \E t \in FeatureTables, name \in ModelNames :
          prediction' = [prediction EXCEPT
              !.features = t, !.model_name = name,
              !.outcome = predict(prediction.models, t, name)]
    /\ UNCHANGED <<label_encoders, location_stats, train_frame, files, unit, prep, hash_seed,
                   data, result, called, calls>>
    /\ UNCHANGED batchVars

\* the call is over
PredictEnd ==
    /\ ~IsNone(prediction.features)
    /\ prediction' = [prediction EXCEPT
          !.features = NoCall, !.model_name = "", !.outcome = NoCall]
    /\ UNCHANGED <<label_encoders, location_stats, train_frame, files, unit, prep, hash_seed,
                   data, result, called, calls>>
    /\ UNCHANGED batchVars

NextPredict == Predict \/ PredictEnd

SpecPredict == InitPredict /\ [][NextPredict]_vars

\* C20 as stated: predict never reorders or reselects the columns it is
\* given: a table whose column list differs from the expected list in
\* names, count or order makes predict raise, and a call that returns has
\* handed the model the table's own columns in the table's own order.
C20_MismatchIsHardError ==
    (~IsNone(prediction) /\ ~IsNone(prediction.features)) =>
        /\ prediction.features.columns # MODEL_EXPECTED_FEATURES =>
               prediction.outcome.raised
        /\ ~prediction.outcome.raised =>
               prediction.outcome.given.columns =
                   Rename(prediction.features,
                          IF prediction.model_name = "lightgbm"
                          THEN rename_map ELSE EmptyDict).columns

(***************************************************************************)
(* data_preprocessor.py: extract_from_address at the level of characters.  *)
(* A Python str is a sequence of one-character strings; a value that is    *)
(* not a str (NaN, a number) is a record without the field str.            *)
(***************************************************************************)
AddrChars == {"a", " ", ",", "."}
MaxAddrLen == 5

Str(chars) == [str |-> chars]
IsStr(v) == "str" \in DOMAIN v
NotAStr == { [nan |-> TRUE], [num |-> 7] }

\* the literal 'Unknown'
Unknown == Str(<<"U", "n", "k", "n", "o", "w", "n">>)

\* s.split(sep)
RECURSIVE SplitOn(_, _)
SplitOn(s, sep) ==
    IF s = <<>> THEN << <<>> >>
    ELSE LET rest == SplitOn(Tail(s), sep)
         IN  IF Head(s) = sep THEN << <<>> >> \o rest
             ELSE << <<Head(s)>> \o rest[1] >> \o Tail(rest)

RECURSIVE LStrip(_, _)
LStrip(s, chars) ==
    IF s # <<>> /\ Head(s) \in chars THEN LStrip(Tail(s), chars) ELSE s

\* rstrip that removes nothing
RStripNothing(s, chars) == s

\* s.rstrip(chars): every trailing character of the set is removed
RECURSIVE RStrip(_, _)
RStrip(s, chars) ==
    IF s # <<>> /\ s[Len(s)] \in chars
    THEN RStrip(SubSeq(s, 1, Len(s) - 1), chars) ELSE s

\* p.strip()
Strip(s) == RStrip(LStrip(s, {" "}), {" "})

\* sep.join(parts)
RECURSIVE Join(_, _)
Join(parts, sep) ==
    IF parts = <<>> THEN <<>>
    ELSE IF Len(parts) = 1 THEN parts[1]
    ELSE parts[1] \o sep \o Join(Tail(parts), sep)

\* the helper _parse_location(addr) of extract_from_address
_parse_location(addr) ==
    IF ~IsStr(addr) \/ addr.str = <<>>
    THEN [city |-> Unknown, district |-> Unknown, street_ward |-> Unknown]
    ELSE LET raw   == SplitOn(addr.str, ",")
             parts == [i \in DOMAIN raw |-> Strip(raw[i])]
             n     == Len(parts)
         IN  IF n >= 3
             THEN [city        |-> Str(RStrip(parts[n], {"."})),
                   district    |-> Str(parts[n - 1]),
                   street_ward |-> Str(Join(SubSeq(parts, 1, n - 2), <<",", " ">>))]
             ELSE IF n = 2
             THEN [city        |-> Str(RStrip(parts[n], {"."})),
                   district    |-> Str(parts[n - 1]),
                   street_ward |-> Unknown]
             ELSE [city        |-> Str(RStrip(parts[1], {"."})),
                   district    |-> Unknown,
                   street_ward |-> Unknown]

\* extract_from_address(address_column): the three columns of every row;
\* the closing fillna('Unknown') replaces a missing value (a non-str)
AddressColumns(t, address_column) ==
    IF address_column \notin DOMAIN t[1] THEN t
    ELSE [i \in DOMAIN t |->
             LET loc == _parse_location(t[i][address_column])
                 filled(v) == IF IsStr(v) THEN v ELSE Unknown
             IN  ("new_city" :> filled(loc.city))
                 @@ ("new_district" :> filled(loc.district))
                 @@ ("new_street_ward" :> filled(loc.street_ward)) @@ t[i]]

\* every text of at most MaxAddrLen characters, and values that are no str
AddressValues ==
    { Str(chars) : chars \in UNION { [1..k -> AddrChars] : k \in 0..MaxAddrLen } }
    \cup NotAStr

InitAddress ==
    /\ label_encoders = EmptyDict /\ location_stats = None /\ train_frame = None
    /\ files = None /\ hash_seed = 1
    /\ data = NoCall /\ result = NoCall /\ called = FALSE /\ calls = IdleCalls
    /\ prediction = NoCall /\ unit = NoCall /\ prep = NoCall
    /\ BatchIdle

\* a one-row table with an Address column goes through extract_from_address
ExtractFromAddress ==
    /\ IsNone(unit)
    /\ \E a \in AddressValues :
          unit' = [ fn     |-> "extract_from_address",
                    input  |-> << [Address |-> a] >>,
                    output |-> AddressColumns(<< [Address |-> a] >>, "Address") ]
    /\ UNCHANGED <<label_encoders, location_stats, train_frame, files, hash_seed,
                   data, result, called, calls, prediction, prep>>
    /\ UNCHANGED batchVars

\* the caller drops the tables
UnitEnd ==
    /\ ~IsNone(unit)
    /\ unit' = NoCall
    /\ UNCHANGED <<label_encoders, location_stats, train_frame, files, hash_seed,
                   data, result, called, calls, prediction, prep>>
    /\ UNCHANGED batchVars

NextAddress == ExtractFromAddress \/ UnitEnd

SpecAddress == InitAddress /\ [][NextAddress]_vars

(***************************************************************************)
(* Claims about extract_from_address                                       *)
(***************************************************************************)
AddressDone == ~IsNone(unit) /\ unit.fn = "extract_from_address"
AddrIn == unit.input[1]["Address"]
AddrOut == unit.output[1]

\* the segments of a text, read off the positions of its commas
CommaAt(s) == {i \in DOMAIN s : s[i] = ","}
NumSegments(s) == Cardinality(CommaAt(s)) + 1
NthSmallest(S, k) == CHOOSE x \in S : Cardinality({y \in S : y < x}) = k - 1
RawSegment(s, k) ==
    LET marks == {0} \cup CommaAt(s) \cup {Len(s) + 1}
    IN  SubSeq(s, NthSmallest(marks, k) + 1, NthSmallest(marks, k + 1) - 1)

\* a segment without its surrounding blanks
Segment(s, k) ==
    LET seg  == RawSegment(s, k)
        solid == {i \in DOMAIN seg : seg[i] # " "}
    IN  IF solid = {} THEN <<>>
        ELSE SubSeq(seg, CHOOSE i \in solid : \A j \in solid : i <= j,
                         CHOOSE i \in solid : \A j \in solid : i >= j)

\* a text up to its last character that is not a period
NoTrailingPeriods(s) ==
    LET solid == {i \in DOMAIN s : s[i] # "."}
    IN  IF solid = {} THEN <<>>
        ELSE SubSeq(s, 1, CHOOSE i \in solid : \A j \in solid : i >= j)

AllUnknown ==
    /\ AddrOut["new_city"] = Unknown
    /\ AddrOut["new_district"] = Unknown
    /\ AddrOut["new_street_ward"] = Unknown

\* the parts of the statement that do not concern the city of a short address
AddressCommonCases ==
    LET s == AddrIn.str
        n == NumSegments(s)
    IN  /\ (~IsStr(AddrIn) \/ AddrIn = Str(<<>>)) => AllUnknown
        /\ (IsStr(AddrIn) /\ AddrIn # Str(<<>>)) =>
              /\ n >= 3 =>
                    /\ AddrOut["new_city"] = Str(NoTrailingPeriods(Segment(s, n)))
                    /\ AddrOut["new_district"] = Str(Segment(s, n - 1))
                    /\ AddrOut["new_street_ward"] =
                           Str(Join([k \in 1..(n - 2) |-> Segment(s, k)], <<",", " ">>))
              /\ n = 2 =>
                    /\ AddrOut["new_district"] = Str(Segment(s, 1))
                    /\ AddrOut["new_street_ward"] = Unknown
              /\ n = 1 =>
                    /\ AddrOut["new_district"] = Unknown
                    /\ AddrOut["new_street_ward"] = Unknown

\* C21 as stated: segments are the comma-separated pieces without their
\* surrounding blanks; with 3 or more the city is the last one without its
\* trailing period, the district the one before and street_ward the others
\* joined by ", "; with exactly 2 the city is the last segment, the district
\* the first and street_ward "Unknown"; with 1 the city is that segment and
\* the rest "Unknown"; an empty or non-string address gives three "Unknown".
C21_AddressSegmentsAsStated ==
    AddressDone =>
        /\ AddressCommonCases
        /\ (IsStr(AddrIn) /\ AddrIn # Str(<<>>) /\ NumSegments(AddrIn.str) <= 2) =>
              AddrOut["new_city"] =
                  Str(Segment(AddrIn.str, NumSegments(AddrIn.str)))

\* C21 amended: as C21, and for 1 and 2 segments too the city is the last
\* segment with every trailing period removed.
C21_AddressSegments ==
    AddressDone =>
        /\ AddressCommonCases
        /\ (IsStr(AddrIn) /\ AddrIn # Str(<<>>) /\ NumSegments(AddrIn.str) <= 2) =>
              AddrOut["new_city"] =
                  Str(NoTrailingPeriods(Segment(AddrIn.str, NumSegments(AddrIn.str))))

\* the address " a, a." has gone through extract_from_address
C21_Witness ==
    /\ AddressDone
    /\ AddrIn = Str(<<"a", ",", " ", "a", ".">>)
    /\ AddrOut["new_city"] = Str(<<"a">>)
    /\ AddrOut["new_district"] = Str(<<"a">>)

\* C22 as stated: for every address value extract_from_address returns, and
\* each of new_city, new_district and new_street_ward is non-empty text or
\* the placeholder "Unknown", never an empty string or a missing value.
C22_AddressNeverEmpty ==
    AddressDone =>
        \A column \in {"new_city", "new_district", "new_street_ward"} :
            /\ column \in DOMAIN AddrOut
            /\ IsStr(AddrOut[column])
            /\ AddrOut[column] # Str(<<>>)

(***************************************************************************)
(* _normalize_city as a function of its argument                           *)
(***************************************************************************)
\* every spelling of the words of UpperOf, and a text that spells none
CityInputs == DOMAIN LowerStripOf \cup {"Qua65n 99"}

\* _normalize_city(city) is called and returns
NormalizeCity ==
    /\ IsNone(unit)
    /\ \E city \in CityInputs :
          unit' = [fn |-> "_normalize_city", input |-> city,
                   output |-> _normalize_city(city)]
    /\ UNCHANGED <<label_encoders, location_stats, train_frame, files, hash_seed,
                   data, result, called, calls, prediction, prep>>
    /\ UNCHANGED batchVars

NextCity == NormalizeCity \/ UnitEnd

SpecCity == InitAddress /\ [][NextCity]_vars

CityDone == ~IsNone(unit) /\ unit.fn = "_normalize_city"

\* the keys of the synonym table the input spells, case and surrounding
\* blanks aside
KeysSpelled(city) ==
    {k \in DOMAIN CITY_MAPPING : k \in DOMAIN UpperOf /\ city \in Spellings(k)}

CanonicalCities == {"Ho62 Chi1 Minh", "Ha2 No65i", "Bi2nh Du7o7ng", "D9a2 Na84ng"}

\* the part of the statement about the keys of the table
CityKeysMapped ==
    \A k \in KeysSpelled(unit.input) :
        /\ unit.output = CITY_MAPPING[k]
        /\ unit.output \in CanonicalCities

\* C23 as stated: every key of the synonym table, compared without regard
\* to case and surrounding blanks, goes to its canonical name, and every
\* input that is not in the table is returned exactly as it was given.
C23_NormalizeCityAsStated ==
    CityDone =>
        /\ CityKeysMapped
        /\ KeysSpelled(unit.input) = {} => unit.output = unit.input

\* C23 amended: as C23, except that the empty string is not returned as
\* given: it goes to the default city Ho62 Chi1 Minh.
C23_NormalizeCity ==
    CityDone =>
        /\ CityKeysMapped
        /\ (KeysSpelled(unit.input) = {} /\ unit.input # "") =>
               unit.output = unit.input
        /\ unit.input = "" => unit.output = "Ho62 Chi1 Minh"

\* an upper-case spelling of a key with blanks around it has been normalised
C23_Witness ==
    /\ CityDone
    /\ unit.input = " HANOI  "
    /\ unit.output = "Ha2 No65i"

(***************************************************************************)
(* Claims about the derived features                                       *)
(***************************************************************************)
\* a request in progress that gives the four sizes as numbers
SizesGiven ==
    /\ ~IsNone(data) /\ ~IsNone(result)
    /\ {"Area", "Bedrooms", "Bathrooms", "Floors"} \subseteq DOMAIN data
    /\ \A k \in {"Area", "Bedrooms", "Bathrooms", "Floors"} : data[k] # Blank

\* how many of the four conditions a record satisfies
LuxuryCount(r) ==
    Cardinality({ c \in {"bath", "bed", "floors", "area"} :
        \/ c = "bath" /\ r["Bathrooms"] >= 4
        \/ c = "bed" /\ r["Bedrooms"] >= 5
        \/ c = "floors" /\ r["Floors"] >= 4
        \/ c = "area" /\ r["Area"] > 140 })

\* C24 as stated: luxury_score is the number of satisfied conditions among
\* Bathrooms >= 4, Bedrooms >= 5, Floors >= 4 and Area > 140, a value in
\* 0..4, in create_interaction_features and in preprocess alike.
C24_LuxuryScoreIsCount ==
    SizesGiven =>
        LET r == Restrict(data, {"Area", "Bedrooms", "Bathrooms", "Floors"})
        IN  /\ LuxuryCount(r) \in 0..4
            /\ InteractionsOfRow(r)["luxury_score"] = LuxuryCount(r)
            /\ result.row["luxury_score"] = LuxuryCount(r)

\* C25 as stated: for every input, Bedrooms = 0 and Bathrooms = 0 included,
\* preprocess outputs new_bathroom_bedroom_ratio = Bathrooms / max(Bedrooms, 1),
\* new_total_rooms = Bedrooms + Bathrooms, new_avg_room_size =
\* Area / max(new_total_rooms, 1), new_is_large_house = 1 exactly when
\* Area > 140, new_is_luxury = 1 exactly when Bathrooms >= 4 and
\* new_is_multi_story = 1 exactly when Floors > 2.
C25_DerivedFeatures ==
    SizesGiven =>
        LET total == data["Bedrooms"] + data["Bathrooms"]
        IN  /\ result.row["new_bathroom_bedroom_ratio"] =
                   Div(data["Bathrooms"], Max(data["Bedrooms"], 1))
            /\ result.row["new_total_rooms"] = total
            /\ result.row["new_avg_room_size"] = Div(data["Area"], Max(total, 1))
            /\ result.row["new_is_large_house"] = 1 <=> data["Area"] > 140
            /\ result.row["new_is_luxury"] = 1 <=> data["Bathrooms"] >= 4
            /\ result.row["new_is_multi_story"] = 1 <=> data["Floors"] > 2

(***************************************************************************)
(* Claims about the tables split_and_encode returns                        *)
(***************************************************************************)
SplitReturned ==
    /\ path \in {"split_and_encode", "tree_optimized_pipeline"}
    /\ pc \in {"save", "done"}
    /\ ~IsNone(fitted) /\ "train_df" \in DOMAIN fitted

\* isnull().sum().sum() == 0: the cells that can be missing in these
\* tables are those of the merged statistics
NoNull(t) ==
    \A i \in DOMAIN t :
        \A c \in DOMAIN t[i] \cap Range(LocationStatColumns) : t[i][c] # NaN

\* C26 as stated: whenever split_and_encode completes, the train and test
\* tables it returns have the same set of columns and no missing value in
\* any column, the five district statistics included, also for a district
\* with a single training row.
C26_ReturnedTablesComplete ==
    SplitReturned =>
        /\ \A i \in DOMAIN fitted.train_df, j \in DOMAIN fitted.test_df :
               DOMAIN fitted.train_df[i] = DOMAIN fitted.test_df[j]
        /\ NoNull(fitted.train_df)
        /\ NoNull(fitted.test_df)

(***************************************************************************)
(* The tier step of create_location_features_train / _test for a district  *)
(* with n training rows                                                    *)
(***************************************************************************)
MaxSmallCount == 120

\* district sizes: the small ones and those around the bin edges
SampleCounts ==
    (1..MaxSmallCount)
    \cup {199, 200, 201, 499, 500, 501, 9999, 10000, 10001, 30000}

\* a merged row of a district with n training rows
CountRow(n) == [new_district |-> "Qua65n 1", new_district_sample_count |-> <<Div(n, 1)>>]

\* pd.cut(...).astype(int) on the merged frame: the tier column, or the
\* error of the cast
TierStep ==
    /\ IsNone(unit)
    /\ \E n \in SampleCounts :
          LET t == WithTier(<<CountRow(n)>>)
          IN  unit' = [fn |-> "tier", input |-> n,
                       output |-> IF TierCastFails(t) THEN [raised |-> TRUE]
                                  ELSE [raised |-> FALSE,
                                        tier |-> t[1]["new_district_tier"]]]
    /\ UNCHANGED <<label_encoders, location_stats, train_frame, files, hash_seed,
                   data, result, called, calls, prediction, prep>>
    /\ UNCHANGED batchVars

NextTier == TierStep \/ UnitEnd

SpecTier == InitAddress /\ [][NextTier]_vars

\* C27 as stated: every sample count n >= 1 gets a tier, 0 for n <= 50, 1
\* for 51..200, 2 for 201..500 and 3 above 500, so that the tier never
\* decreases as n grows, and no count makes the tier undefined or the step
\* fail.
C27_TierDefinedForEveryCount ==
    (~IsNone(unit) /\ unit.fn = "tier") =>
        /\ ~unit.output.raised
        /\ unit.output.tier =
               (IF unit.input <= 50 THEN 0
                ELSE IF unit.input <= 200 THEN 1
                ELSE IF unit.input <= 500 THEN 2 ELSE 3)
        /\ \A m \in SampleCounts :
               (m <= unit.input /\ TierOfCount(m) # NoTier) =>
                   TierOfCount(m) <= unit.output.tier

(***************************************************************************)
(* group_rare_categories and remove_rare_categories on their own           *)
(***************************************************************************)
RareRows == 4
MaxMinCount == 3

RareValues == {"Qua65n 1", "Qua65n 2", "Other"}

\* the tables of 1..RareRows rows; Area tells the rows apart
RareTables ==
    UNION {{[i \in 1..n |-> [index |-> i, new_district |-> f[i], Area |-> 10 * i]] :
                f \in [1..n -> RareValues]} : n \in 1..RareRows}

\* the column asked for is present ("new_district") or not ("new_street_ward")
RareColumns == {"new_district", "new_street_ward"}

\* group_rare_categories(df, column, min_count), and once more on its result
GroupRare ==
    /\ IsNone(unit)
    /\ \E t \in RareTables, column \in RareColumns, min_count \in 1..MaxMinCount :
         LET once == group_rare_categories(t, column, min_count, "Other")
         IN  unit' = [fn |-> "group", input |-> t, column |-> column,
                      min_count |-> min_count, output |-> once,
                      again |-> group_rare_categories(once, column, min_count, "Other")]
    /\ UNCHANGED <<label_encoders, location_stats, train_frame, files, hash_seed,
                   data, result, called, calls, prediction, prep>>
    /\ UNCHANGED batchVars

\* remove_rare_categories(df, column, min_count), and once more on its result
RemoveRare ==
    /\ IsNone(unit)
    /\ \E t \in RareTables, column \in RareColumns, min_count \in 1..MaxMinCount :
         LET once == remove_rare_categories(t, column, min_count)
         IN  unit' = [fn |-> "remove", input |-> t, column |-> column,
                      min_count |-> min_count, output |-> once,
                      again |-> remove_rare_categories(once, column, min_count)]
    /\ UNCHANGED <<label_encoders, location_stats, train_frame, files, hash_seed,
                   data, result, called, calls, prediction, prep>>
    /\ UNCHANGED batchVars

NextRare == GroupRare \/ RemoveRare \/ UnitEnd

SpecRare == InitAddress /\ [][NextRare]_vars

RareDone(fn) == ~IsNone(unit) /\ unit.fn = fn

\* row i of the input holds a value seen fewer than min_count times
IsRareRow(i) ==
    /\ unit.column \in DOMAIN unit.input[i]
    /\ LET v == unit.input[i][unit.column]
       IN  Cardinality({j \in DOMAIN unit.input : unit.input[j][unit.column] = v})
               < unit.min_count

\* the rows of the input that are not rare, in their order
RECURSIVE KeptFrom(_)
KeptFrom(i) ==
    IF i > Len(unit.input) THEN <<>>
    ELSE (IF IsRareRow(i) THEN <<>> ELSE <<unit.input[i]>>) \o KeptFrom(i + 1)

\* C28: a value is rare exactly when it occurs fewer than min_count times in
\* the table.  group_rare_categories rewrites exactly the rare values to the
\* group label and keeps the number of rows and every other column;
\* remove_rare_categories drops exactly the rows holding rare values and keeps
\* every other row as it was; and a second application of either function with
\* the same threshold changes nothing.
C28_RareModes ==
    /\ RareDone("group") =>
         /\ Len(unit.output) = Len(unit.input)
         /\ \A i \in DOMAIN unit.input :
              unit.output[i] =
                  IF IsRareRow(i)
                  THEN [unit.input[i] EXCEPT ![unit.column] = "Other"]
                  ELSE unit.input[i]
         /\ unit.again = unit.output
    /\ RareDone("remove") =>
         /\ unit.output = KeptFrom(1)
         /\ unit.again = unit.output

\* both modes met a table with a rare value and a value at the threshold
C28_Witness ==
    /\ ~IsNone(unit) /\ unit.fn \in {"group", "remove"}
    /\ unit.column = "new_district" /\ unit.min_count = 2
    /\ \E i, j \in DOMAIN unit.input :
         /\ IsRareRow(i) /\ ~IsRareRow(j)
         /\ unit.input[i]["new_district"] # "Other"
         /\ Cardinality({k \in DOMAIN unit.input :
                unit.input[k]["new_district"] = unit.input[j]["new_district"]}) = 2
    /\ unit.output # unit.input

(***************************************************************************)
(* Configured columns that the training table lacks                        *)
(***************************************************************************)
\* the columns the encoding and the scaling configuration name
ConfiguredColumns ==
    Range(config.low_cardinality) \cup Range(config.high_cardinality)
        \cup (IF config.scale_interactions
              THEN Range(config.interaction_columns) ELSE {})

\* C29 as stated: when a column named in the encoding configuration
\* (low_cardinality, high_cardinality) or in the scaling configuration
\* (interaction_columns) is absent from the training table, split_and_encode
\* aborts instead of returning tables and artifacts without it; so a run
\* that returns has every configured column among its feature columns.
C29_MissingConfiguredColumnAborts ==
    SplitReturned => ConfiguredColumns \subseteq fitted.feature_columns

(***************************************************************************)
(* data_preprocessor.py: the DataPreprocessor object                       *)
(*                                                                         *)
(* prep.frames is the store of DataFrame objects; prep.caller, prep.df and *)
(* prep.original_df are references into it, so that two attributes naming  *)
(* one object see each other's in-place changes.                           *)
(***************************************************************************)
MaxOps == 3

FrameIds == 1..4

\* the table the caller builds the DataPreprocessor from
PrepRow(i, area, price, district) ==
       "index" :> i @@ "Area" :> area @@ "Price" :> <<price>>
    @@ "Address" :> << <<"P. Be61n Nghe1", district, "Ho62 Chi1 Minh">> >>

PrepFrame ==
    << PrepRow(1, <<40>>, 40, "Qua65n 1"), PrepRow(2, NaN, 48, "Qua65n 1"),
       PrepRow(3, <<60>>, 56, "Qua65n 7"), PrepRow(4, <<200>>, 64, "Qua65n 7"),
       PrepRow(5, <<80>>, 400, "Other") >>

PrepFrames == { PrepFrame, DropColumns(PrepFrame, {"Address"}) }

\* a reference to the object itself
CopyAlias(frames, ref) == [frames |-> frames, ref |-> ref]

\* df.copy(): a new object with the same cells
Copy(frames, ref) ==
    LET new == CHOOSE id \in FrameIds : id \notin DOMAIN frames
    IN  [frames |-> (new :> frames[ref]) @@ frames, ref |-> new]

\* the objects still referenced by the caller or the DataPreprocessor
Live(frames, refs) == [id \in DOMAIN frames \cap refs |-> frames[id]]

Constructed == ~IsNone(prep)

SelfDf == prep.frames[prep.df]

\* an operation that leaves the object as it is (early return, caught or
\* raised exception)
PrepSame(op, outcome) ==
    [prep EXCEPT !.last = op, !.outcome = outcome, !.steps = @ + 1]

\* an operation that assigns into self.df, appends to new_features and logs
PrepDone(op, table, features, message) ==
    [prep EXCEPT !.frames = [@ EXCEPT ![prep.df] = table],
                 !.new_features = @ \o features,
                 !.processing_log = @ \o message,
                 !.last = op, !.outcome = "done", !.steps = @ + 1]

PrepUnchanged ==
    /\ UNCHANGED <<label_encoders, location_stats, train_frame, files, hash_seed,
                   data, result, called, calls, prediction, unit>>
    /\ UNCHANGED batchVars

CanStep == Constructed /\ prep.steps < MaxOps

\* DataPreprocessor(df)
PrepInit ==
    /\ ~Constructed
    /\ \E t \in PrepFrames :
         LET frames == 1 :> t
             c1     == Copy(frames, 1)
             c2     == Copy(c1.frames, 1)
         IN  prep' = [frames |-> c2.frames, caller |-> 1, df |-> c1.ref,
                      original_df |-> c2.ref, processing_log |-> <<>>,
                      new_features |-> <<>>, given |-> t,
                      last |-> "__init__", outcome |-> "done", steps |-> 0]
    /\ PrepUnchanged

\* f'has_{column.lower().replace(" ", "_").replace("-", "_")}'
FlagName(column) ==
    CASE column = "Area" -> "has_area"
      [] column = "Price" -> "has_price"
      [] OTHER -> "has_nope"

AddBinaryFlag ==
    /\ CanStep
    /\ \E column \in {"Area", "Nope"} :
         prep' = IF column \notin Columns(SelfDf)
                 THEN PrepSame("add_binary_flag", "not found")
                 ELSE PrepDone("add_binary_flag",
                               add_binary_flag(SelfDf, column, FlagName(column)),
                               <<FlagName(column)>>,
                               <<[op |-> "add_binary_flag", column |-> column]>>)
    /\ PrepUnchanged

\* fill_value, fill_median and fill_mode: nothing when the column is absent
\* or has no missing cell; the chained in-place fill reaches self.df or a
\* temporary copy of the column
Fill ==
    /\ CanStep
    /\ \E op \in {"fill_value", "fill_median", "fill_mode"},
          column \in {"Area", "Nope"}, cow \in BOOLEAN :
         prep' = IF column \notin Columns(SelfDf)
                 THEN PrepSame(op, "not found")
                 ELSE IF ~HasMissing(SelfDf, column)
                 THEN PrepSame(op, "nothing missing")
                 ELSE PrepDone(op,
                               CASE op = "fill_value" -> fill_value(SelfDf, column, 0, cow)
                                 [] op = "fill_median" -> fill_median(SelfDf, column, "", cow)
                                 [] OTHER -> fill_mode(SelfDf, column, cow),
                               <<>>, <<[op |-> op, column |-> column]>>)
    /\ PrepUnchanged

\* the columns a formula reads from the table it is given
FormulaColumns(formula) ==
    IF formula = "Price / Area" THEN {"Price", "Area"} ELSE {"Price", "Nope"}

\* create_feature: the formula's exception is caught and nothing is recorded
CreateFeature ==
    /\ CanStep
    /\ \E formula \in {"Price / Area", "Price / Nope"} :
         prep' = IF ~(FormulaColumns(formula) \subseteq Columns(SelfDf))
                 THEN PrepSame("create_feature", "caught")
                 ELSE LET f(r) == RatioCell(r["Price"], r["Area"])
                      IN  PrepDone("create_feature",
                                   create_feature(SelfDf, "Price_per_m2", f),
                                   <<"Price_per_m2">>,
                                   <<[op |-> "create_feature", column |-> "Price_per_m2"]>>)
    /\ PrepUnchanged

\* a bound as a cell value
FracCell(f) == IF f[2] = 1 THEN <<f[1]>> ELSE <<f>>

\* Series.clip(lower, upper) on a column of numbers
Clip(cells, lower, upper) ==
    [k \in DOMAIN cells |->
        IF isna(cells[k]) THEN NaN
        ELSE IF ~FracLE(lower, <<cells[k][1], 1>>) THEN FracCell(lower)
        ELSE IF ~FracLE(<<cells[k][1], 1>>, upper) THEN FracCell(upper)
        ELSE cells[k]]

\* ((col < lower) | (col > upper)).sum()
OutliersOf(cells, lower, upper) ==
    {k \in DOMAIN cells :
        /\ ~isna(cells[k])
        /\ \/ ~FracLE(lower, <<cells[k][1], 1>>)
           \/ ~FracLE(<<cells[k][1], 1>>, upper)}

ValuesOf(cells) == [k \in DOMAIN Present(cells) |-> Present(cells)[k][1]]

\* cap_outliers(column, lower_percentile, upper_percentile), the percentiles
\* given in quarters, and cap_outliers_iqr(column, multiplier)
CapOutliers ==
    /\ CanStep
    /\ \E op \in {"cap_outliers", "cap_outliers_iqr"}, column \in {"Price", "Nope"},
          q \in {<<0, 2>>, <<2, 4>>} :
         prep' = IF column \notin Columns(SelfDf)
                 THEN PrepSame(op, "not found")
                 ELSE LET cells == Column(SelfDf, column)
                          iqr   == IQRBounds(ValuesOf(cells), <<3, 2>>)
                          lower == IF op = "cap_outliers"
                                   THEN Quantile(ValuesOf(cells), q[1]) ELSE iqr.lower
                          upper == IF op = "cap_outliers"
                                   THEN Quantile(ValuesOf(cells), q[2]) ELSE iqr.upper
                      IN  IF OutliersOf(cells, lower, upper) = {}
                          THEN PrepSame(op, "no outliers")
                          ELSE PrepDone(op,
                                   SetColumn(SelfDf, column, Clip(cells, lower, upper)),
                                   <<>>, <<[op |-> op, column |-> column]>>)
    /\ PrepUnchanged

\* extract_from_address: the three names are appended unless already listed
PrepExtractFromAddress ==
    /\ CanStep
    /\ \E address_column \in {"Address", "Nope"} :
         prep' = IF address_column \notin Columns(SelfDf)
                 THEN PrepSame("extract_from_address", "not found")
                 ELSE PrepDone("extract_from_address",
                          extract_from_address(SelfDf, address_column),
                          SelectSeq(<<"new_city", "new_district", "new_street_ward">>,
                                    LAMBDA x : x \notin Range(prep.new_features)),
                          <<[op |-> "extract_from_address", column |-> address_column]>>)
    /\ PrepUnchanged

\* create_bins(column): pd.cut's exception is caught and nothing is recorded
CreateBins ==
    /\ CanStep
    /\ \E column \in {"Area", "Nope"} :
         prep' = IF column \notin Columns(SelfDf)
                 THEN PrepSame("create_bins", "not found")
                 ELSE IF Present(Column(SelfDf, column)) = <<>>
                 THEN PrepSame("create_bins", "caught")
                 ELSE PrepDone("create_bins", create_bins(SelfDf, column),
                               <<"Area_binned">>,
                               <<[op |-> "create_bins", column |-> column]>>)
    /\ PrepUnchanged

\* StandardScaler().fit_transform(df[[column]]): missing cells stay missing
ScaledCells(cells) ==
    LET xs   == ValuesOf(cells)
        n    == Len(xs)
        mean == Div(SeqSum(xs), n)
        var  == Div(n * SeqSum([k \in DOMAIN xs |-> xs[k] * xs[k]])
                        - SeqSum(xs) * SeqSum(xs), n * n)
    IN  [k \in DOMAIN cells |->
            IF isna(cells[k]) THEN NaN
            ELSE <<[dev |-> FracSub(<<cells[k][1], 1>>, mean),
                    var |-> IF var[1] = 0 THEN <<1, 1>> ELSE var]>>]

\* scale_feature(column, method): an unknown method does nothing, a column
\* of text makes the scaler raise before anything is assigned
ScaleFeature ==
    /\ CanStep
    /\ \E column \in {"Price", "Address", "Nope"}, method \in {"standard", "none"} :
         prep' = IF column \notin Columns(SelfDf)
                 THEN PrepSame("scale_feature", "not found")
                 ELSE IF method # "standard"
                 THEN PrepSame("scale_feature", "unknown method")
                 ELSE IF column = "Address"
                 THEN PrepSame("scale_feature", "raised")
                 ELSE PrepDone("scale_feature",
                          SetColumn(SelfDf, "Price_scaled",
                                    ScaledCells(Column(SelfDf, column))),
                          <<"Price_scaled">>,
                          <<[op |-> "scale_feature", column |-> column]>>)
    /\ PrepUnchanged

\* reset(): self.df = self.original_df.copy(); the lists are emptied
Reset ==
    /\ CanStep
    /\ LET c == Copy(Live(prep.frames, {prep.caller, prep.original_df}),
                     prep.original_df)
       IN  prep' = [prep EXCEPT !.frames = c.frames, !.df = c.ref,
                                !.processing_log = <<>>, !.new_features = <<>>,
                                !.last = "reset", !.outcome = "done",
                                !.steps = @ + 1]
    /\ PrepUnchanged

\* the caller drops the object
PrepEnd ==
    /\ Constructed /\ prep.steps = MaxOps
    /\ prep' = NoCall
    /\ PrepUnchanged

NextPrep ==
    \/ PrepInit \/ AddBinaryFlag \/ Fill \/ CreateFeature \/ CapOutliers
    \/ PrepExtractFromAddress \/ CreateBins \/ ScaleFeature \/ Reset \/ PrepEnd

SpecPrep == InitAddress /\ [][NextPrep]_vars

\* C30: after any sequence of operations, failing ones and ones naming a
\* missing column included, original_df equals the table given to the
\* constructor and the caller's table is unmodified; right after reset() df
\* equals original_df and processing_log and new_features are empty; and at
\* every point each name in new_features is a column of df.
C30_OriginalKeptAndResetRestores ==
    Constructed =>
        /\ prep.frames[prep.original_df] = prep.given
        /\ prep.frames[prep.caller] = prep.given
        /\ Range(prep.new_features) \subseteq Columns(SelfDf)
        /\ prep.last = "reset" =>
             /\ SelfDf = prep.frames[prep.original_df]
             /\ prep.processing_log = <<>>
             /\ prep.new_features = <<>>

\* a failed operation on an object whose df has gained features and differs
\* from original_df
C30_Witness ==
    /\ Constructed
    /\ prep.outcome \in {"not found", "caught", "raised"}
    /\ Len(prep.new_features) >= 2
    /\ Columns(SelfDf) # Columns(prep.frames[prep.original_df])

====
